---- MODULE Spec2Model ----
(***************************************************************************)
(* TagBot: the Repo class of tagbot/repo.py.                               *)
(*                                                                         *)
(* The model follows Repo method by method.  Python dicts are sequences of *)
(* <<key, value>> pairs with distinct keys, in insertion order; an         *)
(* Optional value is a sequence of length 0 (None) or 1.  Durations are    *)
(* whole seconds.                                                          *)
(***************************************************************************)
EXTENDS Integers, Sequences, FiniteSets, TLC

\* ------------------------------------------------------------------ bounds
\* Largest number of files listed in .github/workflows.
MaxFiles == 2
\* Largest number of job steps the files of .github/workflows hold together.
MaxSteps == 2
\* Largest number of reads of Repo._lookback in one process.
MaxAccesses == 2

\* Largest number of version keys the registry's Versions.toml holds.
MaxVersions == 2
\* Largest number of direct calls of Repo._filter_map_versions in one process.
MaxValidations == 2

\* Largest number of processes run one after the other.
MaxRuns == 2

\* Largest number of configure_ssh and configure_gpg calls in one process.
MaxConfigs == 2

\* Largest number of commits in the registry's history.
MaxCommits == 2
\* Largest number of Repo._versions calls in one process.
MaxReads == 2
\* Longest string given to Repo._maybe_b64.
MaxLen == 4

\* ----------------------------------------------------------------- helpers
None == <<>>
Some(x) == <<x>>

Max(a, b) == IF a >= b THEN a ELSE b

SeqsUpTo(S, n) == UNION {[1..m -> S] : m \in 0..n}

\* Python dicts: <<key, value>> pairs, keys distinct, in insertion order.
DictKeys(d) == {d[i][1] : i \in 1..Len(d)}
DictHas(d, k) == \E i \in 1..Len(d) : d[i][1] = k
DictSet(d, k, v) ==
    IF DictHas(d, k)
    THEN [i \in 1..Len(d) |-> IF d[i][1] = k THEN <<k, v>> ELSE d[i]]
    ELSE Append(d, <<k, v>>)
\* The dicts with keys in K and values in V.
Dicts(K, V) ==
    {d \in SeqsUpTo(K \X V, Cardinality(K)) :
        \A i, j \in 1..Len(d) : d[i][1] = d[j][1] => i = j}

\* ------------------------------------------------------------------- state
VARIABLES
    workflows,      \* the working copy's .github/workflows directory
    lookbackCache,  \* Repo.__lookback
    lastLookback,   \* what the last read of Repo._lookback produced
    opens,          \* number of open() calls on workflow files so far
    accesses,       \* number of reads of Repo._lookback so far
    current,        \* Versions.toml of the package in the registry now
    old,            \* Versions.toml as of the lookback window
    treeCommit,     \* Git: the commit holding each tree, if any
    tags,           \* Git: the commit each tag points at, if the tag exists
    releases,       \* Hub: the names of the existing releases
    branches,       \* Git: the state of each release branch
    pulls,          \* Hub: the pull requests created
    defaultHead,    \* Git: the commit at the head of the default branch
    ssh,            \* Repo._ssh
    gpg,            \* Repo._gpg
    STATUS,         \* tagbot.STATUS, the process's exit status
    log,            \* messages printed by the last operation
    calls,          \* accessor calls made by the last operation
    candidates,     \* argument of the last Repo._filter_map_versions call
    valid,          \* result of the last Repo._filter_map_versions call
    outcome,        \* how the last operation ended
    validations,    \* number of Repo._filter_map_versions calls so far
    queue,          \* caller: the validated versions not yet released
    stage,          \* caller: where the process stands
    runs,           \* number of processes started so far
    environ,        \* os.environ, the process environment
    gitConfig,      \* Git: the settings written with Git.config
    tempFiles,      \* the temporary files and directories of the process
    agent,          \* the ssh-agent and the ssh-add child of the process
    cred,           \* the configure_ssh or configure_gpg call under way
    configs,        \* number of configure_ssh and configure_gpg calls so far
    b64,            \* the last Repo._maybe_b64 call: its argument and its end
    registry,       \* the registry repository: Registry.toml and its commits
    repoState       \* Project.toml, Repo.__project, Repo.__registry_path and
                    \* the last Repo._versions call

lookbackVars == <<workflows, lookbackCache, lastLookback, opens, accesses>>
registryVars == <<current, old>>
repoVars == <<treeCommit, tags, releases, branches, pulls, defaultHead>>
configVars == <<ssh, gpg>>
processVars == <<STATUS, log, calls, candidates, valid, outcome, validations>>
callerVars == <<queue, stage, runs>>
credVars == <<environ, gitConfig, tempFiles, agent, cred, configs>>
b64Vars == <<b64>>
versionsVars == <<registry, repoState>>

vars ==
    <<lookbackVars, registryVars, repoVars, configVars, processVars, callerVars,
      credVars, b64Vars, versionsVars>>

\* ---------------------------------------------------------------- lookback
\* timedelta(days=3, hours=1), in seconds.
DefaultLookback == 3 * 86400 + 3600

\* A step of a job, by what step["uses"] does: "tagbot" has a uses entry
\* containing "TagBot", "other" has a uses entry without it, "nouses" has no
\* uses entry (step["uses"] raises KeyError); a job without a steps entry
\* raises KeyError at the same place and is a "nouses" step here.
StepKinds == {"tagbot", "other", "nouses"}

\* data[True]["schedule"][0]["cron"] fed to croniter: "none" when a key is
\* missing or the expression does not parse (an exception either way),
\* otherwise cron.get_next() - cron.get_prev(), the seconds between the two
\* firings around now.
Schedules == {"none", "hourly", "daily", "every5days"}
CronSeconds(sched) ==
    CASE sched = "hourly" -> 3600
      [] sched = "daily" -> 86400
      [] sched = "every5days" -> 5 * 86400

\* A directory entry: a subdirectory ("dir"), a file whose open() or
\* yaml.safe_load() raises or whose data has no "jobs" mapping ("bad"), or a
\* parsed workflow ("doc") with the steps of its jobs in iteration order.
WorkflowFiles ==
    {[kind |-> k, steps |-> <<>>, sched |-> "none"] : k \in {"dir", "bad"}}
    \cup [kind : {"doc"}, steps : SeqsUpTo(StepKinds, MaxSteps), sched : Schedules]

\* The number of steps the files of a listing hold together.
RECURSIVE TotalSteps(_)
TotalSteps(files) ==
    IF files = <<>> THEN 0 ELSE Len(Head(files).steps) + TotalSteps(Tail(files))

\* ScanSteps with line 101 returning the padded interval without the max().
RECURSIVE ScanStepsNoFloor(_, _)
ScanStepsNoFloor(steps, sched) ==
    IF steps = <<>> THEN [kind |-> "end", value |-> 0]
    ELSE IF Head(steps) = "nouses" THEN [kind |-> "except", value |-> 0]
    ELSE IF Head(steps) = "tagbot" THEN
        IF sched = "none" THEN [kind |-> "except", value |-> 0]
        ELSE [kind |-> "found", value |-> CronSeconds(sched) * 3 + 3600]
    ELSE ScanStepsNoFloor(Tail(steps), sched)

\* Lines 92-104: the loops over the jobs' steps of one parsed file.
\* "found" carries the value of line 101; "except" is an exception caught at
\* line 105; "end" is the loops running out.
RECURSIVE ScanSteps(_, _)
ScanSteps(steps, sched) ==
    IF steps = <<>> THEN [kind |-> "end", value |-> 0]
    ELSE IF Head(steps) = "nouses" THEN [kind |-> "except", value |-> 0]
    ELSE IF Head(steps) = "tagbot" THEN
        IF sched = "none" THEN [kind |-> "except", value |-> 0]
        ELSE [kind |-> "found",
              value |-> Max(CronSeconds(sched) * 3 + 3600, DefaultLookback)]
    ELSE ScanSteps(Tail(steps), sched)

\* Lines 85-107: the loop over os.listdir(workflows); n counts open() calls.
RECURSIVE ScanFiles(_, _)
ScanFiles(files, n) ==
    IF files = <<>> THEN
        [raised |-> FALSE, value |-> DefaultLookback, cache |-> None, opens |-> n]
    ELSE LET f == Head(files) IN
        IF f.kind = "dir" THEN ScanFiles(Tail(files), n)
        ELSE IF f.kind = "bad" THEN ScanFiles(Tail(files), n + 1)
        ELSE LET r == ScanSteps(f.steps, f.sched) IN
            IF r.kind = "found" THEN
                [raised |-> FALSE, value |-> r.value,
                 cache |-> Some(r.value), opens |-> n + 1]
            ELSE ScanFiles(Tail(files), n + 1)

\* Repo._lookback (lines 78-107): one read of the property, given the cache
\* slot and the directory.  os.listdir is outside the try block, so a missing
\* directory raises out of the property.
Lookback(cache, dir) ==
    IF cache # None THEN
        [raised |-> FALSE, value |-> cache[1], cache |-> cache, opens |-> 0]
    ELSE IF ~dir.exists THEN
        [raised |-> TRUE, value |-> 0, cache |-> None, opens |-> 0]
    ELSE ScanFiles(dir.files, 0)

\* ---------------------------------------------------- registry, Git, Hub
KeyNames == <<"1.2.3", "2.3.4", "3.4.5", "4.5.6">>
\* Version keys of Versions.toml.
Keys == {KeyNames[i] : i \in 1..MaxVersions}
\* git-tree-sha1 values.
Trees == {"abc", "bcd"}
Commits == {"sha1", "sha2"}
\* The falsy result of Git.commit_sha_of_tree, and a tag that does not exist.
NoCommit == "None"

\* Line 138: the tag name of a registry version key.
Tag(key) == "v" \o key
Versions == {Tag(k) : k \in Keys}

\* Line 260: version[1:] drops the prefix of a tag name.
Unprefixed(version) == CHOOSE k \in Keys : Tag(k) = version
ReleaseBranch(version) == "release-" \o Unprefixed(version)
BranchNames == {ReleaseBranch(v) : v \in Versions}
\* Repo._repo.default_branch.
DefaultBranch == "master"

\* Snapshots returned by Repo._versions (line 174).
Snapshots == Dicts(Keys, Trees)

\* The levels of tagbot.warn, tagbot.error and tagbot.info.
Message(level, text) == [level |-> level, text |-> text]
\* An accessor call: the method and its arguments as strings.
Call(op, args) == [op |-> op, args |-> args]

\* Git.commit_sha_of_tree(tree).
CommitShaOfTree(tree) == treeCommit[tree]
\* Git.invalid_tag_exists(version, sha): the tag exists at another commit.
InvalidTagExists(version, sha) == tags[version] # NoCommit /\ tags[version] # sha
\* _release_exists answering False on both paths.
ReleaseExistsNever(version) == FALSE
\* Repo._release_exists (lines 117-123).
ReleaseExists(version) == version \in releases

\* tagbot.error raises the exit status; warn and info leave it.
StatusAfter(level, status) == IF level = "error" THEN 1 ELSE status

\* One logging call: the message is printed and the status updated.
Logged(acc, level, text) ==
    [acc EXCEPT !.log = Append(@, Message(level, text)),
                !.status = StatusAfter(level, @)]

\* The texts of lines 141, 144 and 148.
NoCommitText(version, tree) ==
    "No matching commit was found for version " \o version \o " (" \o tree \o ")"
WrongTagText(version, sha) ==
    "Existing tag " \o version \o " points at the wrong commit (expected " \o sha \o ")"
ReleaseExistsText(version) == "Release " \o version \o " already exists"

\* The accessor calls of the loop body, in order, up to the n-th.
ChecksCalled(acc, n, version, tree, sha) ==
    LET all == <<Call("commit_sha_of_tree", <<tree>>),
                 Call("invalid_tag_exists", <<version, sha>>),
                 Call("get_release", <<version>>)>>
    IN [acc EXCEPT !.calls = @ \o SubSeq(all, 1, n)]

\* FilterMapStep reporting a missing commit through error() instead of warn().
FilterMapStepErrorOnNoCommit(acc, key, tree) ==
    LET version == Tag(key)
        sha == CommitShaOfTree(tree)
    IN
    IF sha = NoCommit THEN
        Logged(ChecksCalled(acc, 1, version, tree, sha), "error",
               NoCommitText(version, tree))
    ELSE IF InvalidTagExists(version, sha) THEN
        Logged(ChecksCalled(acc, 2, version, tree, sha), "error",
               WrongTagText(version, sha))
    ELSE IF ReleaseExists(version) THEN
        Logged(ChecksCalled(acc, 3, version, tree, sha), "info",
               ReleaseExistsText(version))
    ELSE
        [ChecksCalled(acc, 3, version, tree, sha)
            EXCEPT !.valid = DictSet(@, version, sha)]

\* FilterMapStep storing the tree SHA instead of the commit SHA at line 150.
FilterMapStepKeepsTree(acc, key, tree) ==
    LET version == Tag(key)
        sha == CommitShaOfTree(tree)
    IN
    IF sha = NoCommit THEN
        Logged(ChecksCalled(acc, 1, version, tree, sha), "warning",
               NoCommitText(version, tree))
    ELSE IF InvalidTagExists(version, sha) THEN
        Logged(ChecksCalled(acc, 2, version, tree, sha), "error",
               WrongTagText(version, sha))
    ELSE IF ReleaseExists(version) THEN
        Logged(ChecksCalled(acc, 3, version, tree, sha), "info",
               ReleaseExistsText(version))
    ELSE
        [ChecksCalled(acc, 3, version, tree, sha)
            EXCEPT !.valid = DictSet(@, version, tree)]

\* Lines 138-150: the loop body of _filter_map_versions for one entry, acc
\* holding valid, the messages, the accessor calls and the status so far.
FilterMapStep(acc, key, tree) ==
    LET version == Tag(key)
        sha == CommitShaOfTree(tree)
    IN
    IF sha = NoCommit THEN
        Logged(ChecksCalled(acc, 1, version, tree, sha), "warning",
               NoCommitText(version, tree))
    ELSE IF InvalidTagExists(version, sha) THEN
        Logged(ChecksCalled(acc, 2, version, tree, sha), "error",
               WrongTagText(version, sha))
    ELSE IF ReleaseExists(version) THEN
        Logged(ChecksCalled(acc, 3, version, tree, sha), "info",
               ReleaseExistsText(version))
    ELSE
        [ChecksCalled(acc, 3, version, tree, sha)
            EXCEPT !.valid = DictSet(@, version, sha)]

\* Line 137: the loop over versions.items().
RECURSIVE FilterMapLoop(_, _)
FilterMapLoop(versions, acc) ==
    IF versions = <<>> THEN acc
    ELSE FilterMapLoop(Tail(versions),
                       FilterMapStep(acc, Head(versions)[1], Head(versions)[2]))

\* Repo._filter_map_versions (lines 134-151), started with the status the
\* process has.
FilterMap(versions, status) ==
    FilterMapLoop(versions,
        [valid |-> <<>>, log |-> <<>>, calls |-> <<>>, status |-> status])

\* Line 182 comparing whole entries instead of keys.
NewKeysByEntry(cur, prev) ==
    SelectSeq(cur, LAMBDA kv : ~(\E i \in 1..Len(prev) : prev[i] = kv))
\* Line 182: the entries of current whose key is not a key of old.
NewKeys(cur, prev) == SelectSeq(cur, LAMBDA kv : ~DictHas(prev, kv[1]))

\* --------------------------------------------- the process's credentials
\* The environment variables the model follows: the two that ssh-agent
\* announces and the home of the GPG key store.
EnvNames == {"SSH_AUTH_SOCK", "SSH_AGENT_PID", "GNUPGHOME"}
\* The value of a variable or a setting that is not set.
Unset == ""
\* The settings configure_ssh and configure_gpg write (lines 218, 253-256).
ConfigKeys ==
    {"core.sshCommand", "user.signingKey", "user.name", "user.email",
     "tag.gpgSign"}
\* The temporary paths: the key file (line 201), the known-hosts file
\* (line 208) and the GPG home (line 235).  A later call makes new ones,
\* which take the place of the earlier ones here.
Paths == {"tagbot_key_", "tagbot_hosts_", "tagbot_gpg_"}
NoFile == [exists |-> FALSE, mode |-> {}, content |-> "", used |-> FALSE]

\* A process that has configured nothing yet.
NoEnviron == [n \in EnvNames |-> Unset]
NoGitConfig == [k \in ConfigKeys |-> Unset]
NoFiles == [p \in Paths |-> NoFile]
NoAgent == [started |-> FALSE, child |-> "none"]
IdleCred ==
    [op |-> "none", pc |-> "idle", key |-> "", password |-> "None",
     git0 |-> NoGitConfig, secImported |-> 0, keyId |-> "", signStatus |-> "",
     written |-> 0]
\* No _maybe_b64 call yet.
NoB64 ==
    [input |-> <<>>, called |-> FALSE, strict |-> FALSE, raised |-> "none",
     value |-> <<>>]

\* ------------------------------------------------- the registry repository
\* d[k] of a Python dict.
DictGet(d, k) == d[CHOOSE i \in 1..Len(d) : d[i][1] = k][2]

\* datetime.now() (line 158), in days; commits are dated before it.
Now == MaxCommits + 1
\* commit.commit.sha of the commit made on a day.
ShaOn(date) == <<"sha-a", "sha-b", "sha-c", "sha-d">>[date + 1]

\* The working copy's Project.toml or JuliaProject.toml, if there is one.
ProjectFiles == {None} \cup {Some(<<<<"uuid", u>>>>) : u \in {"abc-def", "abc-ddd"}}
\* registry["packages"] of the registry's Registry.toml.
Packages == <<<<"abc-def", [path |-> "B/Bar"]>>>>

\* A Versions.toml with its first n version keys.
VersionsToml(n) ==
    [i \in 1..n |->
        <<KeyNames[i],
          [f \in {"git-tree-sha1"} |-> IF i % 2 = 1 THEN "abc" ELSE "bcd"]>>]
\* The files of a registry commit besides Registry.toml: the package's
\* Versions.toml, or nothing.
CommitFiles ==
    {<<>>} \cup {<<<<"B/Bar/Versions.toml", VersionsToml(n)>>>> : n \in 0..MaxVersions}
\* A registry commit.
Commit(date, files) == [sha |-> ShaOn(date), date |-> date, files |-> files]
\* The histories of the registry, the most recent commit first: at least the
\* commit that Registry.toml came with, each commit on a day of its own.
Histories ==
    {h \in SeqsUpTo({Commit(d, f) : d \in 0..(Now - 1), f \in CommitFiles},
                    MaxCommits) :
        /\ h # <<>>
        /\ \A i \in 1..(Len(h) - 1) : h[i].date > h[i + 1].date}
\* The registry most processes see: one commit, no Versions.toml yet.
GeneralRegistry == [packages |-> Packages, commits |-> <<Commit(0, <<>>)>>]

\* The min_age argument of Repo._versions: None or a timedelta in days.
MinAges == {None} \cup {Some(a) : a \in 0..Now}
\* Line 156: `if min_age`, None and timedelta(0) being falsy.
MinAgeGiven(min_age) == min_age # None /\ min_age[1] # 0

\* Repository.get_commits(until=until): the commits made at or before until,
\* the most recent first.
GetCommits(commits, until) == SelectSeq(commits, LAMBDA c : c.date <= until)
\* The commit a get_contents call reads: the ref given, or the head.
CommitAt(commits, ref) ==
    IF ref = None THEN Head(commits)
    ELSE commits[CHOOSE i \in 1..Len(commits) : commits[i].sha = ref[1]]
\* Repository.get_contents(path, ref=ref): the decoded file, or None where
\* it raises UnknownObjectException.
GetContents(commits, path, ref) ==
    LET files == CommitAt(commits, ref).files IN
    IF DictHas(files, path) THEN Some(DictGet(files, path)) ELSE None

\* A Repo that has read nothing yet, next to a Project.toml.
NewRepoWith(file) ==
    [file |-> file, project |-> None, registry_path |-> None,
     called |-> FALSE, min_age |-> None, versions |-> <<>>, reads |-> 0]
NewRepo == NewRepoWith(Some(<<<<"uuid", "abc-def">>>>))

\* Repo._project("uuid") (lines 53-63), given the cache slot and the file.
Project(cache, file) ==
    IF cache # None THEN
        [raised |-> FALSE, value |-> DictGet(cache[1], "uuid"), cache |-> cache]
    ELSE IF file # None THEN
        [raised |-> FALSE, value |-> DictGet(file[1], "uuid"), cache |-> file]
    ELSE [raised |-> TRUE, value |-> "", cache |-> None]

\* Repo._registry_path (lines 65-76): one read of the property.  A package
\* that is not in the index gives None, which line 76 does not store.
RegistryPath(st, reg) ==
    IF st.registry_path # None THEN
        [raised |-> FALSE, value |-> st.registry_path, calls |-> <<>>,
         registry_path |-> st.registry_path, project |-> st.project]
    ELSE LET c == <<Call("get_contents", <<"Registry.toml">>)>>
             p == Project(st.project, st.file) IN
        IF p.raised THEN
            [raised |-> TRUE, value |-> None, calls |-> c,
             registry_path |-> None, project |-> p.cache]
        ELSE IF DictHas(reg.packages, p.value) THEN
            [raised |-> FALSE, value |-> Some(DictGet(reg.packages, p.value).path),
             calls |-> c, registry_path |-> Some(DictGet(reg.packages, p.value).path),
             project |-> p.cache]
        ELSE [raised |-> FALSE, value |-> None, calls |-> c,
              registry_path |-> None, project |-> p.cache]

\* Line 169: f"{root}/Versions.toml", None formatting as "None".
VersionsPath(root) == (IF root = None THEN "None" ELSE root[1]) \o "/Versions.toml"

\* Line 174: the version keys with their git-tree-sha1.
TreesOf(toml) == [i \in 1..Len(toml) |-> <<toml[i][1], toml[i][2]["git-tree-sha1"]>>]

\* Lines 161-163 with the loop keeping the last commit of the iterator.
FirstCommitOldest(found) == found[Len(found)]

\* Lines 161-163: the loop over the commits breaks at the first of them.
FirstCommit(found) == Head(found)

\* Lines 167-174: the registry path is read and the file fetched at the ref.
ReadVersions(st, reg, ref, before) ==
    LET root == RegistryPath(st, reg) IN
    IF root.raised THEN
        [outcome |-> "abort", versions |-> <<>>, calls |-> before \o root.calls,
         log |-> <<>>, registry_path |-> root.registry_path, project |-> root.project]
    ELSE LET path == VersionsPath(root.value)
             args == IF ref = None THEN <<path>> ELSE <<path, "ref=" \o ref[1]>>
             cs == before \o root.calls \o <<Call("get_contents", args)>>
             contents == GetContents(reg.commits, path, ref) IN
        IF contents = None THEN
            [outcome |-> "returned", versions |-> <<>>, calls |-> cs,
             log |-> <<Message("debug", "Versions.toml was not found")>>,
             registry_path |-> root.registry_path, project |-> root.project]
        ELSE [outcome |-> "returned", versions |-> TreesOf(contents[1]), calls |-> cs,
              log |-> <<>>, registry_path |-> root.registry_path,
              project |-> root.project]

\* Repo._versions(min_age) (lines 153-174).
VersionsOf(st, reg, min_age) ==
    IF MinAgeGiven(min_age) THEN
        LET found == GetCommits(reg.commits, Now - min_age[1])
            c == <<Call("get_commits", <<"until=now-min_age">>)>> IN
        IF found = <<>> THEN
            [outcome |-> "returned", versions |-> <<>>, calls |-> c,
             log |-> <<Message("debug", "No registry commits were found")>>,
             registry_path |-> st.registry_path, project |-> st.project]
        ELSE ReadVersions(st, reg, Some(FirstCommit(found).sha), c)
    ELSE ReadVersions(st, reg, None, <<>>)

\* ----------------------------------------------------------------- actions
\* Repo.__init__ (lines 49-51) and the start of the process.
InitProcess ==
    /\ lookbackCache = None
    /\ lastLookback = [raised |-> FALSE, value |-> None]
    /\ opens = 0
    /\ accesses = 0
    /\ STATUS = 0
    /\ log = <<>>
    /\ calls = <<>>
    /\ candidates = <<>>
    /\ valid = <<>>
    /\ outcome = "none"
    /\ validations = 0
    /\ environ = NoEnviron
    /\ gitConfig = NoGitConfig
    /\ tempFiles = NoFiles
    /\ agent = NoAgent
    /\ cred = IdleCred
    /\ configs = 0
    /\ b64 = NoB64

\* No release branch, no pull request, default signing, and a caller that
\* has made one Repo and calls its methods directly.
NoBranchesNoCaller ==
    /\ branches = [b \in BranchNames |-> "Absent"]
    /\ pulls = {}
    /\ defaultHead = "sha1"
    /\ ssh = FALSE
    /\ gpg = FALSE
    /\ queue = <<>>
    /\ stage = "direct"
    /\ runs = 1

\* A repository with no tag and no release, and an empty registry.
EmptyWorld ==
    /\ current = <<>>
    /\ old = <<>>
    /\ treeCommit = [t \in Trees |-> NoCommit]
    /\ tags = [v \in Versions |-> NoCommit]
    /\ releases = {}
    /\ NoBranchesNoCaller

\* A fresh process in a working copy whose workflows directory is missing
\* or still empty.
InitLookback ==
    /\ registry = GeneralRegistry
    /\ repoState = NewRepo
    /\ workflows \in [exists : BOOLEAN, files : {<<>>}]
    /\ InitProcess
    /\ EmptyWorld

\* The working copy gains a workflow file, listed last by os.listdir, before
\* the process reads the directory.
AddWorkflow(f) ==
    /\ accesses = 0
    /\ workflows.exists
    /\ Len(workflows.files) < MaxFiles
    /\ TotalSteps(workflows.files) + Len(f.steps) <= MaxSteps
    /\ workflows' = [workflows EXCEPT !.files = Append(@, f)]
    /\ UNCHANGED <<lookbackCache, lastLookback, opens, accesses,
                   registryVars, repoVars, configVars, b64Vars, versionsVars, credVars, processVars>>

\* A read of the property Repo._lookback.
AccessLookback ==
    /\ accesses < MaxAccesses
    /\ LET r == Lookback(lookbackCache, workflows) IN
        /\ lookbackCache' = r.cache
        /\ lastLookback' = [raised |-> r.raised,
                            value |-> IF r.raised THEN None ELSE Some(r.value)]
        /\ opens' = opens + r.opens
    /\ accesses' = accesses + 1
    /\ UNCHANGED <<workflows, registryVars, repoVars, configVars, b64Vars, versionsVars, credVars,
                   processVars>>

NextLookback ==
    \/ \E f \in WorkflowFiles : AddWorkflow(f) /\ UNCHANGED callerVars
    \/ AccessLookback /\ UNCHANGED callerVars

SpecLookback == InitLookback /\ [][NextLookback]_vars

\* A fresh process on a repository in any state of its trees, tags and
\* releases.
InitValidate ==
    /\ registry = GeneralRegistry
    /\ repoState = NewRepo
    /\ workflows = [exists |-> TRUE, files |-> <<>>]
    /\ InitProcess
    /\ current = <<>>
    /\ old = <<>>
    /\ treeCommit \in [Trees -> Commits \cup {NoCommit}]
    /\ tags \in [Versions -> Commits \cup {NoCommit}]
    /\ releases \in SUBSET Versions
    /\ NoBranchesNoCaller

\* FilterMapVersions publishing a release for every survivor.
FilterMapVersionsReleasing(versions) ==
    /\ validations < MaxValidations
    /\ LET r == FilterMap(versions, STATUS) IN
        /\ valid' = r.valid
        /\ log' = r.log
        /\ calls' = r.calls
        /\ STATUS' = r.status
        /\ releases' = releases \cup DictKeys(r.valid)
    /\ candidates' = versions
    /\ outcome' = "returned"
    /\ validations' = validations + 1
    /\ UNCHANGED <<lookbackVars, registryVars, treeCommit, tags, branches, pulls,
                   defaultHead, configVars, b64Vars, versionsVars, credVars>>

\* A call of Repo._filter_map_versions(versions).
FilterMapVersions(versions) ==
    /\ validations < MaxValidations
    /\ LET r == FilterMap(versions, STATUS) IN
        /\ valid' = r.valid
        /\ log' = r.log
        /\ calls' = r.calls
        /\ STATUS' = r.status
    /\ candidates' = versions
    /\ outcome' = "returned"
    /\ validations' = validations + 1
    /\ UNCHANGED <<lookbackVars, registryVars, repoVars, configVars, b64Vars, versionsVars, credVars>>

\* The first call takes any candidate dict; later calls of the process
\* repeat it.
NextValidate ==
    \E versions \in Snapshots :
        /\ validations > 0 => versions = candidates
        /\ FilterMapVersions(versions)
        /\ UNCHANGED callerVars

SpecValidate == InitValidate /\ [][NextValidate]_vars

\* Workflows directories of the processes that call new_versions: missing,
\* empty, and one TagBot workflow scheduled every 5 days.
SomeDirs ==
    {[exists |-> FALSE, files |-> <<>>],
     [exists |-> TRUE, files |-> <<>>],
     [exists |-> TRUE,
      files |-> <<[kind |-> "doc", steps |-> <<"tagbot">>, sched |-> "every5days"]>>]}

\* Snapshots whose keys are in the order of KeyNames.
RECURSIVE InOrder(_, _)
InOrder(d, from) ==
    \/ d = <<>>
    \/ \E i \in from..Len(KeyNames) :
          Head(d)[1] = KeyNames[i] /\ InOrder(Tail(d), i + 1)

\* A fresh process; the registry holds any two snapshots, tree "abc" is the
\* tree of commit sha1 and tree "bcd" is in no commit, and each tag is absent
\* or at sha2.
InitNewVersions ==
    /\ registry = GeneralRegistry
    /\ repoState = NewRepo
    /\ workflows \in SomeDirs
    /\ InitProcess
    /\ current \in Snapshots
    /\ old \in {d \in Snapshots : InOrder(d, 1)}
    /\ treeCommit = [t \in Trees |-> IF t = "abc" THEN "sha1" ELSE NoCommit]
    /\ tags \in [Versions -> {NoCommit, "sha2"}]
    /\ releases \in SUBSET Versions
    /\ NoBranchesNoCaller

\* Repo.new_versions (lines 176-183): both snapshots are read, the lookback
\* property is read for the second one, and the difference is validated.
NewVersions ==
    /\ outcome = "none"
    /\ LET lb == Lookback(lookbackCache, workflows)
           versions == NewKeys(current, old)
           r == FilterMap(versions, STATUS)
       IN
        /\ lookbackCache' = lb.cache
        /\ lastLookback' = [raised |-> lb.raised,
                            value |-> IF lb.raised THEN None ELSE Some(lb.value)]
        /\ opens' = opens + lb.opens
        /\ accesses' = accesses + 1
        /\ IF lb.raised
           THEN /\ outcome' = "raised"
                /\ UNCHANGED <<STATUS, log, calls, candidates, valid, validations>>
           ELSE /\ outcome' = "returned"
                /\ candidates' = versions
                /\ valid' = r.valid
                /\ log' = r.log
                /\ calls' = r.calls
                /\ STATUS' = r.status
                /\ validations' = validations + 1
    /\ UNCHANGED <<workflows, registryVars, repoVars, configVars, b64Vars, versionsVars, credVars>>

NextNewVersions == NewVersions /\ UNCHANGED callerVars

SpecNewVersions == InitNewVersions /\ [][NextNewVersions]_vars

\* ------------------------------------------------------------- releasing
BranchStates == {"Absent", "FastForwardable", "Diverged"}
BoolStr(b) == IF b THEN "True" ELSE "False"
\* Changelog.get(version, sha): the rendered release notes.
ChangelogOf(version, sha) == "Changelog of " \o version \o " at " \o sha
\* Line 128: the title of the pull request.
PullTitle(version) == "Merge release branch for " \o version

\* A pull request that swaps head and base.
CreateReleaseBranchPrSwapped(version, branch) ==
    [title |-> PullTitle(version), body |-> "",
     head |-> DefaultBranch, base |-> branch]

\* Repo._create_release_branch_pr(version, branch) (lines 125-132): the pull
\* request asked of the Hub.
CreateReleaseBranchPr(version, branch) ==
    [title |-> PullTitle(version), body |-> "",
     head |-> branch, base |-> DefaultBranch]

\* The accessor call of handle_release_branch that raises, if one does.
BranchFailures ==
    {"none", "fetch_branch", "can_fast_forward", "merge_and_delete_branch",
     "create_pull"}
\* The accessor call of create_release that raises, if one does.
ReleaseFailures ==
    {"none", "commit_sha_of_default", "changelog.get", "create_tag",
     "create_git_release"}

\* A handle_release_branch that does not return while the release branch is
\* diverged.
HandleReleaseBranchWaiting(version, fail, head) ==
    LET branch == ReleaseBranch(version)
        c1 == <<Call("fetch_branch", <<branch>>)>>
        c2 == c1 \o <<Call("can_fast_forward", <<branch>>)>>
        merge == c2 \o <<Call("merge_and_delete_branch", <<branch>>)>>
        pr == CreateReleaseBranchPr(version, branch)
        pull == c2 \o <<Call("create_pull",
                             <<pr.title, pr.body, pr.head, pr.base>>)>>
        Raise(cs, msgs) ==
            /\ outcome' = "raised"
            /\ calls' = cs
            /\ log' = msgs
            /\ UNCHANGED <<branches, pulls, defaultHead>>
    IN
    /\ fail \in BranchFailures
    /\ IF fail = "fetch_branch" THEN Raise(c1, <<>>)
       ELSE IF branches[branch] = "Absent" THEN
           /\ outcome' = "returned"
           /\ calls' = c1
           /\ log' = <<Message("info",
                          "Release branch " \o branch \o " does not exist")>>
           /\ UNCHANGED <<branches, pulls, defaultHead>>
       ELSE IF fail = "can_fast_forward" THEN Raise(c2, <<>>)
       ELSE IF branches[branch] = "FastForwardable" THEN
           LET msgs == <<Message("info", "Release branch can be fast-forwarded")>>
           IN
           IF fail = "merge_and_delete_branch" THEN Raise(merge, msgs)
           ELSE /\ outcome' = "returned"
                /\ calls' = merge
                /\ log' = msgs
                /\ branches' = [branches EXCEPT ![branch] = "Absent"]
                /\ defaultHead' = head
                /\ UNCHANGED pulls
       ELSE
           LET msgs == <<Message("info",
                   "Release branch cannot be fast-forwarded, creating pull request")>>
           IN
           IF fail = "create_pull" THEN Raise(pull, msgs)
           ELSE /\ FALSE
                /\ outcome' = "returned"
                /\ calls' = pull
                /\ log' = msgs
                /\ pulls' = pulls \cup {pr}
                /\ UNCHANGED <<branches, defaultHead>>
    /\ UNCHANGED <<lookbackVars, registryVars, treeCommit, tags, releases,
                   configVars, b64Vars, versionsVars, credVars, STATUS, candidates, valid, validations>>

\* Repo.handle_release_branch(version) (lines 258-269) with
\* _create_release_branch_pr (lines 125-132); head is the commit at the head
\* of the release branch, which a fast-forward makes the default head.
HandleReleaseBranch(version, fail, head) ==
    LET branch == ReleaseBranch(version)
        c1 == <<Call("fetch_branch", <<branch>>)>>
        c2 == c1 \o <<Call("can_fast_forward", <<branch>>)>>
        merge == c2 \o <<Call("merge_and_delete_branch", <<branch>>)>>
        pr == CreateReleaseBranchPr(version, branch)
        pull == c2 \o <<Call("create_pull",
                             <<pr.title, pr.body, pr.head, pr.base>>)>>
        Raise(cs, msgs) ==
            /\ outcome' = "raised"
            /\ calls' = cs
            /\ log' = msgs
            /\ UNCHANGED <<branches, pulls, defaultHead>>
    IN
    /\ fail \in BranchFailures
    /\ IF fail = "fetch_branch" THEN Raise(c1, <<>>)
       ELSE IF branches[branch] = "Absent" THEN
           /\ outcome' = "returned"
           /\ calls' = c1
           /\ log' = <<Message("info",
                          "Release branch " \o branch \o " does not exist")>>
           /\ UNCHANGED <<branches, pulls, defaultHead>>
       ELSE IF fail = "can_fast_forward" THEN Raise(c2, <<>>)
       ELSE IF branches[branch] = "FastForwardable" THEN
           LET msgs == <<Message("info", "Release branch can be fast-forwarded")>>
           IN
           IF fail = "merge_and_delete_branch" THEN Raise(merge, msgs)
           ELSE /\ outcome' = "returned"
                /\ calls' = merge
                /\ log' = msgs
                /\ branches' = [branches EXCEPT ![branch] = "Absent"]
                /\ defaultHead' = head
                /\ UNCHANGED pulls
       ELSE
           LET msgs == <<Message("info",
                   "Release branch cannot be fast-forwarded, creating pull request")>>
           IN
           IF fail = "create_pull" THEN Raise(pull, msgs)
           ELSE /\ outcome' = "returned"
                /\ calls' = pull
                /\ log' = msgs
                /\ pulls' = pulls \cup {pr}
                /\ UNCHANGED <<branches, defaultHead>>
    /\ UNCHANGED <<lookbackVars, registryVars, treeCommit, tags, releases,
                   configVars, b64Vars, versionsVars, credVars, STATUS, candidates, valid, validations>>

\* A target that is the commit whatever the default branch points at.
ReleaseTargetAlwaysSha(sha) == sha

\* Lines 273-277: the release targets the default branch when sha is the
\* commit at its head, and the commit otherwise.
ReleaseTarget(sha) == IF defaultHead = sha THEN DefaultBranch ELSE sha

\* A tag that is annotated whenever it is created by hand.
CreateTagCallsAnnotateAlways(version, sha) ==
    IF ssh \/ gpg
    THEN <<Call("create_tag", <<version, sha, BoolStr(ssh \/ gpg)>>)>>
    ELSE <<>>

\* One tag per signing mode.
CreateTagCallsPerMode(version, sha) ==
    (IF ssh THEN <<Call("create_tag", <<version, sha, "False">>)>> ELSE <<>>)
    \o (IF gpg THEN <<Call("create_tag", <<version, sha, "True">>)>> ELSE <<>>)

\* Lines 282-285: the Git.create_tag calls of create_release.
CreateTagCalls(version, sha) ==
    IF ssh \/ gpg
    THEN <<Call("create_tag", <<version, sha, BoolStr(gpg)>>)>>
    ELSE <<>>

\* A create_release that removes the tag it made when the release request
\* fails.
CreateReleaseUndoingTag(version, sha, fail) ==
    LET target == ReleaseTarget(sha)
        manual == ssh \/ gpg
        c1 == <<Call("commit_sha_of_default", <<>>)>>
        c2 == c1 \o <<Call("changelog.get", <<version, sha>>)>>
        c3 == c2 \o CreateTagCalls(version, sha)
        c4 == c3 \o <<Call("create_git_release",
                           <<version, version, ChangelogOf(version, sha), target>>)>>
        m1 == IF manual
              THEN <<Message("info", "Manually creating tag " \o version)>>
              ELSE <<>>
        m2 == m1 \o <<Message("info",
                              "Creating release " \o version \o " at " \o sha)>>
        tagged == IF manual THEN [tags EXCEPT ![version] = sha] ELSE tags
        Raise(cs, msgs, ts) ==
            /\ outcome' = "raised"
            /\ calls' = cs
            /\ log' = msgs
            /\ tags' = ts
            /\ UNCHANGED releases
    IN
    /\ fail \in ReleaseFailures
    /\ IF fail = "commit_sha_of_default" THEN Raise(c1, <<>>, tags)
       ELSE IF fail = "changelog.get" THEN Raise(c2, <<>>, tags)
       ELSE IF manual /\ fail = "create_tag" THEN Raise(c3, m1, tags)
       ELSE IF fail = "create_git_release" \/ version \in releases
            THEN Raise(c4, m2, tags)
       ELSE /\ outcome' = "returned"
            /\ calls' = c4
            /\ log' = m2
            /\ releases' = releases \cup {version}
            /\ tags' = IF tagged[version] = NoCommit
                       THEN [tagged EXCEPT ![version] = sha]
                       ELSE tagged
    /\ UNCHANGED <<lookbackVars, registryVars, treeCommit, branches, pulls,
                   defaultHead, configVars, b64Vars, versionsVars, credVars, STATUS, candidates, valid,
                   validations>>

\* Repo.create_release(version, sha) (lines 271-287).  Git.create_tag puts
\* the tag at sha; create_git_release publishes the release and, when the tag
\* does not exist yet, the tag with it; the Hub refuses a release that
\* exists.
CreateRelease(version, sha, fail) ==
    LET target == ReleaseTarget(sha)
        manual == ssh \/ gpg
        c1 == <<Call("commit_sha_of_default", <<>>)>>
        c2 == c1 \o <<Call("changelog.get", <<version, sha>>)>>
        c3 == c2 \o CreateTagCalls(version, sha)
        c4 == c3 \o <<Call("create_git_release",
                           <<version, version, ChangelogOf(version, sha), target>>)>>
        m1 == IF manual
              THEN <<Message("info", "Manually creating tag " \o version)>>
              ELSE <<>>
        m2 == m1 \o <<Message("info",
                              "Creating release " \o version \o " at " \o sha)>>
        tagged == IF manual THEN [tags EXCEPT ![version] = sha] ELSE tags
        Raise(cs, msgs, ts) ==
            /\ outcome' = "raised"
            /\ calls' = cs
            /\ log' = msgs
            /\ tags' = ts
            /\ UNCHANGED releases
    IN
    /\ fail \in ReleaseFailures
    /\ IF fail = "commit_sha_of_default" THEN Raise(c1, <<>>, tags)
       ELSE IF fail = "changelog.get" THEN Raise(c2, <<>>, tags)
       ELSE IF manual /\ fail = "create_tag" THEN Raise(c3, m1, tags)
       ELSE IF fail = "create_git_release" \/ version \in releases
            THEN Raise(c4, m2, tagged)
       ELSE /\ outcome' = "returned"
            /\ calls' = c4
            /\ log' = m2
            /\ releases' = releases \cup {version}
            /\ tags' = IF tagged[version] = NoCommit
                       THEN [tagged EXCEPT ![version] = sha]
                       ELSE tagged
    /\ UNCHANGED <<lookbackVars, registryVars, treeCommit, branches, pulls,
                   defaultHead, configVars, b64Vars, versionsVars, credVars, STATUS, candidates, valid,
                   validations>>

\* ------------------------------------------------------------- the caller
\* A process: new_versions, then handle_release_branch and create_release
\* for each returned version in turn; an exception ends the process.

\* The caller asks for the new versions.
RunNewVersions ==
    /\ stage = "versions"
    /\ NewVersions
    /\ queue' = IF outcome' = "returned" THEN valid' ELSE <<>>
    /\ stage' = IF outcome' = "raised" THEN "failed"
                ELSE IF valid' = <<>> THEN "done" ELSE "branch"
    /\ UNCHANGED runs

\* The caller handles the release branch of the next version.
RunHandleReleaseBranch ==
    /\ stage = "branch"
    /\ \E fail \in BranchFailures, head \in Commits :
          HandleReleaseBranch(Head(queue)[1], fail, head)
    /\ stage' = IF outcome' = "raised" THEN "failed" ELSE "release"
    /\ UNCHANGED <<queue, runs>>

\* The caller creates the release of the next version.
RunCreateRelease ==
    /\ stage = "release"
    /\ \E fail \in ReleaseFailures :
          CreateRelease(Head(queue)[1], Head(queue)[2], fail)
    /\ queue' = IF outcome' = "raised" THEN queue ELSE Tail(queue)
    /\ stage' = IF outcome' = "raised" THEN "failed"
                ELSE IF Tail(queue) = <<>> THEN "done" ELSE "branch"
    /\ UNCHANGED runs

\* The process has ended; the next scheduled process starts with a new Repo
\* on the same repository and registry.
StartProcess ==
    /\ stage \in {"done", "failed"}
    /\ runs < MaxRuns
    /\ lookbackCache' = None
    /\ lastLookback' = [raised |-> FALSE, value |-> None]
    /\ opens' = 0
    /\ accesses' = 0
    /\ STATUS' = 0
    /\ log' = <<>>
    /\ calls' = <<>>
    /\ candidates' = <<>>
    /\ valid' = <<>>
    /\ outcome' = "none"
    /\ validations' = 0
    /\ queue' = <<>>
    /\ stage' = "versions"
    /\ runs' = runs + 1
    /\ environ' = NoEnviron
    /\ gitConfig' = NoGitConfig
    /\ tempFiles' = NoFiles
    /\ agent' = NoAgent
    /\ cred' = IdleCred
    /\ configs' = 0
    /\ repoState' = NewRepo
    /\ UNCHANGED <<workflows, registryVars, repoVars, configVars, b64Vars, registry>>

\* The first process of a package whose versions are all new: no tag and no
\* release yet, every tree in a commit, release branches in any state.
Init ==
    /\ registry = GeneralRegistry
    /\ repoState = NewRepo
    /\ workflows = [exists |-> TRUE, files |-> <<>>]
    /\ InitProcess
    /\ current \in {d \in Snapshots : InOrder(d, 1)}
    /\ old = <<>>
    /\ treeCommit = [t \in Trees |-> IF t = "abc" THEN "sha1" ELSE "sha2"]
    /\ tags = [v \in Versions |-> NoCommit]
    /\ releases = {}
    /\ branches \in [BranchNames -> BranchStates]
    /\ pulls = {}
    /\ defaultHead \in Commits
    /\ ssh \in BOOLEAN
    /\ gpg \in BOOLEAN
    /\ queue = <<>>
    /\ stage = "versions"
    /\ runs = 1

Next ==
    \/ RunNewVersions
    \/ RunHandleReleaseBranch
    \/ RunCreateRelease
    \/ StartProcess

Spec == Init /\ [][Next]_vars

\* The caller's loop when no accessor call fails.
RunHandleReleaseBranchNoFailure ==
    /\ stage = "branch"
    /\ \E head \in Commits : HandleReleaseBranch(Head(queue)[1], "none", head)
    /\ stage' = IF outcome' = "raised" THEN "failed" ELSE "release"
    /\ UNCHANGED <<queue, runs>>

RunCreateReleaseNoFailure ==
    /\ stage = "release"
    /\ CreateRelease(Head(queue)[1], Head(queue)[2], "none")
    /\ queue' = IF outcome' = "raised" THEN queue ELSE Tail(queue)
    /\ stage' = IF outcome' = "raised" THEN "failed"
                ELSE IF Tail(queue) = <<>> THEN "done" ELSE "branch"
    /\ UNCHANGED runs

NextNoFailure ==
    \/ RunNewVersions
    \/ RunHandleReleaseBranchNoFailure
    \/ RunCreateReleaseNoFailure
    \/ StartProcess

\* The process is sequential: once the caller has reached a version, each
\* operation on it is run, and each accessor call returns.
SpecNoFailure ==
    /\ Init
    /\ [][NextNoFailure]_vars
    /\ WF_vars(RunHandleReleaseBranchNoFailure)
    /\ WF_vars(RunCreateReleaseNoFailure)

\* ------------------------------------------------- reading the registry
\* A fresh process next to any Project.toml and any registry history.
InitVersions ==
    /\ workflows = [exists |-> TRUE, files |-> <<>>]
    /\ InitProcess
    /\ EmptyWorld
    /\ registry \in [packages : {Packages}, commits : Histories]
    /\ repoState \in {NewRepoWith(f) : f \in ProjectFiles}

\* A call of Repo._versions(min_age); an Abort ends the process.
CallVersions(min_age) ==
    /\ repoState.reads < MaxReads
    /\ outcome # "abort"
    /\ LET r == VersionsOf(repoState, registry, min_age) IN
          /\ outcome' = r.outcome
          /\ calls' = r.calls
          /\ log' = r.log
          /\ repoState' = [repoState EXCEPT !.project = r.project,
                                            !.registry_path = r.registry_path,
                                            !.called = TRUE,
                                            !.min_age = min_age,
                                            !.versions = r.versions,
                                            !.reads = @ + 1]
    /\ UNCHANGED <<lookbackVars, registryVars, repoVars, configVars, b64Vars,
                   credVars, callerVars, registry, STATUS, candidates, valid,
                   validations>>

NextVersions == \E min_age \in MinAges : CallVersions(min_age)

SpecVersions == InitVersions /\ [][NextVersions]_vars

\* ------------------------------------------------------------------ Base64
\* A string is the sequence of the code points of its characters.
Pad == 61
\* The value of a character of the Base64 alphabet (A-Z, a-z, 0-9, +, /),
\* and -1 for any other character.
B64Value(c) ==
    IF c \in 65..90 THEN c - 65
    ELSE IF c \in 97..122 THEN c - 71
    ELSE IF c \in 48..57 THEN c + 4
    ELSE IF c = 43 THEN 62
    ELSE IF c = 47 THEN 63
    ELSE -1
\* The character of the Base64 alphabet with the value v.
B64Char(v) == CHOOSE c \in 43..122 : B64Value(c) = v

\* The number of alphabet characters the string begins with.
DataLen(s) ==
    CHOOSE n \in 0..Len(s) :
        /\ \A i \in 1..n : B64Value(s[i]) >= 0
        /\ n = Len(s) \/ B64Value(s[n + 1]) < 0
\* Alphabet characters followed by padding and nothing else.
DataThenPads(s) == \A i \in (DataLen(s) + 1)..Len(s) : s[i] = Pad

\* base64.b64decode(s, validate=True) accepts s.  Interpreters differ on
\* padding that is not needed: the lenient ones (the pattern
\* [A-Za-z0-9+/]*={0,2}, then binascii.a2b_base64) take at most two padding
\* characters and ignore them after whole groups of four and after three
\* characters and one padding character; the strict ones
\* (binascii.a2b_base64 with strict_mode) refuse padding at the start and
\* after a complete padding, and ignore it after whole groups of four.
B64Accepts(s, strict) ==
    LET n == DataLen(s)
        p == Len(s) - n
    IN
    /\ \A i \in 1..Len(s) : s[i] < 128
    /\ DataThenPads(s)
    /\ IF strict
       THEN CASE n % 4 = 0 -> n > 0 \/ p = 0
              [] n % 4 = 1 -> FALSE
              [] n % 4 = 2 -> p = 2
              [] n % 4 = 3 -> p = 1
       ELSE /\ p <= 2
            /\ CASE n % 4 = 0 -> TRUE
                 [] n % 4 = 1 -> FALSE
                 [] n % 4 = 2 -> p = 2
                 [] n % 4 = 3 -> p >= 1

\* The bytes the first n characters of s encode: six bits a character,
\* eight bits a byte, left-over bits dropped.
B64Bytes(s, n) ==
    [k \in 1..((n * 6) \div 8) |->
        LET bit == 8 * (k - 1)
            i == bit \div 6 + 1
            off == bit % 6
        IN
        ((B64Value(s[i]) * 64 + B64Value(s[i + 1])) \div (2^(4 - off))) % 256]

\* bytes.decode(): the text the bytes are the UTF-8 encoding of, if any.
RECURSIVE Utf8Decode(_)
Utf8Decode(b) ==
    IF b = <<>> THEN [ok |-> TRUE, text |-> <<>>]
    ELSE
        LET b1 == b[1]
            len == IF b1 < 128 THEN 1
                   ELSE IF b1 \in 194..223 THEN 2
                   ELSE IF b1 \in 224..239 THEN 3
                   ELSE IF b1 \in 240..244 THEN 4
                   ELSE 0
            bad == [ok |-> FALSE, text |-> <<>>]
        IN
        IF len = 0 \/ Len(b) < len THEN bad
        ELSE IF \E i \in 2..len : b[i] \notin 128..191 THEN bad
        ELSE
            LET cp == CASE len = 1 -> b1
                        [] len = 2 -> (b1 - 192) * 64 + (b[2] - 128)
                        [] len = 3 -> (b1 - 224) * 4096 + (b[2] - 128) * 64
                                         + (b[3] - 128)
                        [] len = 4 -> (b1 - 240) * 262144 + (b[2] - 128) * 4096
                                         + (b[3] - 128) * 64 + (b[4] - 128)
                rest == Utf8Decode(SubSeq(b, len + 1, Len(b)))
            IN
            IF \/ len = 3 /\ (cp < 2048 \/ cp \in 55296..57343)
               \/ len = 4 /\ cp \notin 65536..1114111
            THEN bad
            ELSE IF ~rest.ok THEN bad
            ELSE [ok |-> TRUE, text |-> <<cp>> \o rest.text]

\* Repo._maybe_b64(val) (lines 109-115).  b64decode raises ValueError for a
\* string with a character that is not ASCII and binascii.Error, which is
\* caught, for one it does not accept; decode() raises UnicodeDecodeError
\* for bytes that are not UTF-8.
MaybeB64(val, strict) ==
    IF \E i \in 1..Len(val) : val[i] >= 128
    THEN [raised |-> "ValueError", value |-> <<>>]
    ELSE IF ~B64Accepts(val, strict)
    THEN [raised |-> "none", value |-> val]
    ELSE
        LET text == Utf8Decode(B64Bytes(val, DataLen(val))) IN
        IF text.ok THEN [raised |-> "none", value |-> text.text]
        ELSE [raised |-> "UnicodeDecodeError", value |-> <<>>]

\* The characters the strings given to _maybe_b64 are made of: Z, g, m, Y,
\* the padding character, /, w, !, and e with an acute accent.
InputChars == {90, 103, 109, 89, 61, 47, 119, 33, 233}

\* A process about to call _maybe_b64 on some string.
InitMaybeB64 ==
    /\ registry = GeneralRegistry
    /\ repoState = NewRepo
    /\ workflows = [exists |-> FALSE, files |-> <<>>]
    /\ lookbackCache = None
    /\ lastLookback = [raised |-> FALSE, value |-> None]
    /\ opens = 0
    /\ accesses = 0
    /\ STATUS = 0
    /\ log = <<>>
    /\ calls = <<>>
    /\ candidates = <<>>
    /\ valid = <<>>
    /\ outcome = "none"
    /\ validations = 0
    /\ environ = NoEnviron
    /\ gitConfig = NoGitConfig
    /\ tempFiles = NoFiles
    /\ agent = NoAgent
    /\ cred = IdleCred
    /\ configs = 0
    /\ EmptyWorld
    /\ b64 \in {[NoB64 EXCEPT !.input = x] : x \in SeqsUpTo(InputChars, MaxLen)}

\* Repo._maybe_b64(b64.input) is called.
CallMaybeB64 ==
    /\ ~b64.called
    /\ \E strict \in BOOLEAN :
          LET r == MaybeB64(b64.input, strict) IN
          b64' = [input |-> b64.input, called |-> TRUE, strict |-> strict,
                  raised |-> r.raised, value |-> r.value]
    /\ UNCHANGED <<lookbackVars, registryVars, repoVars, configVars, credVars,
                   processVars, callerVars, versionsVars>>

NextMaybeB64 == CallMaybeB64

SpecMaybeB64 == InitMaybeB64 /\ [][NextMaybeB64]_vars

\* ------------------------------------------------- configuring credentials
\* Permission bits: the owner's (stat.S_IREAD, S_IWRITE, S_IEXEC), the
\* group's and the others'.
S_IREAD == {"ur"}
S_IWRITE == {"uw"}
S_IEXEC == {"ux"}
\* Line 201, 208: tempfile.mkstemp makes a file only its owner can read and
\* write.
MkstempMode == S_IREAD \cup S_IWRITE
\* Line 235: tempfile.mkdtemp makes a directory only its owner can read,
\* write and search.
MkdtempMode == S_IREAD \cup S_IWRITE \cup S_IEXEC
\* A key file everyone can read.
KeyFileModeWorldReadable == {"ur", "gr", "or"}

\* Line 205: the mode given to the key file once it is written.
KeyFileMode == S_IREAD
\* Line 236: the mode given to the GPG home.
GpgHomeMode == S_IREAD \cup S_IWRITE \cup S_IEXEC

\* The passphrases passed in: None, the empty string, and a passphrase.
Passwords == {"None", "", "mypassword"}
\* Lines 219, 246: `if password`.
Truthy(password) == password \notin {"None", ""}
\* The keys passed in: as they are, with a trailing blank, and
\* Base64-encoded.
KeyInputs == {"sshkey ", "c3Noa2V5"}
\* The characters of the keys and of what they decode to.
CharsOf(str) ==
    CASE str = "c3Noa2V5" -> <<99, 51, 78, 111, 97, 50, 86, 53>>
      [] str = "sshkey " -> <<115, 115, 104, 107, 101, 121, 32>>
      [] str = "sshkey" -> <<115, 115, 104, 107, 101, 121>>
\* The string with the characters chars.
TextOf(chars) ==
    CHOOSE str \in {"c3Noa2V5", "sshkey ", "sshkey"} : CharsOf(str) = chars
\* Repo._maybe_b64 on a key passed in; none of the keys makes it raise.
KeyText(val) == TextOf(MaybeB64(CharsOf(val), TRUE).value)
\* str.strip() on the keys passed in.
Strip(val) == IF val = "sshkey " THEN "sshkey" ELSE val
\* Line 200: the repository's SSH URL.
SshUrl == "git@github.com:Owner/Example.jl.git"
\* Line 216: the SSH command Git is told to use.
SshCommand(priv, hosts) ==
    "ssh -i " \o priv \o " -o UserKnownHostsFile=" \o hosts
\* Lines 222-225: the variables found in the output of ssh-agent.
AgentAnnounces ==
    <<<<"SSH_AUTH_SOCK", "/tmp/ssh-agent.sock">>, <<"SSH_AGENT_PID", "123">>>>
\* Lines 225-227: the environment after each announced variable is set.
EnvironAfter(env, pairs) ==
    [n \in EnvNames |->
        IF DictHas(pairs, n)
        THEN pairs[CHOOSE i \in 1..Len(pairs) :
                      /\ pairs[i][1] = n
                      /\ \A j \in (i + 1)..Len(pairs) : pairs[j][1] # n][2]
        ELSE env[n]]

\* The ends of a configure call: it returned, an exception other than Abort
\* left it, or Abort left it.
CredEnds == {"done", "raised", "abort"}

\* A configure_ssh that starts the agent without a passphrase too.
SshNextAlwaysAgent(pc, password, ok) ==
    IF ~ok THEN "raised"
    ELSE CASE pc = "ssh_set_remote_url" -> "ssh_mkstemp_key"
           [] pc = "ssh_mkstemp_key" -> "ssh_write_key"
           [] pc = "ssh_write_key" -> "ssh_chmod_key"
           [] pc = "ssh_chmod_key" -> "ssh_mkstemp_hosts"
           [] pc = "ssh_mkstemp_hosts" -> "ssh_keyscan"
           [] pc = "ssh_keyscan" -> "ssh_config"
           [] pc = "ssh_config" -> "ssh_agent"
           [] pc = "ssh_agent" -> "ssh_environ"
           [] pc = "ssh_environ" -> "ssh_add"
           [] pc = "ssh_add" -> "ssh_expect_prompt"
           [] pc = "ssh_expect_prompt" -> "ssh_sendline"
           [] pc = "ssh_sendline" -> "ssh_expect_added"
           [] pc = "ssh_expect_added" -> "done"

\* A configure_ssh that sends the passphrase before it has seen the prompt.
SshNextSendsBeforePrompt(pc, password, ok) ==
    IF ~ok THEN "raised"
    ELSE CASE pc = "ssh_set_remote_url" -> "ssh_mkstemp_key"
           [] pc = "ssh_mkstemp_key" -> "ssh_write_key"
           [] pc = "ssh_write_key" -> "ssh_chmod_key"
           [] pc = "ssh_chmod_key" -> "ssh_mkstemp_hosts"
           [] pc = "ssh_mkstemp_hosts" -> "ssh_keyscan"
           [] pc = "ssh_keyscan" -> "ssh_config"
           [] pc = "ssh_config" ->
                 IF Truthy(password) THEN "ssh_agent" ELSE "done"
           [] pc = "ssh_agent" -> "ssh_environ"
           [] pc = "ssh_environ" -> "ssh_add"
           [] pc = "ssh_add" -> "ssh_sendline"
           [] pc = "ssh_sendline" -> "ssh_expect_prompt"
           [] pc = "ssh_expect_prompt" -> "ssh_expect_added"
           [] pc = "ssh_expect_added" -> "done"

\* Repo.configure_ssh (lines 198-231), statement by statement: the
\* statement that follows the one at pc, which has succeeded (ok) or raised.
SshNext(pc, password, ok) ==
    IF ~ok THEN "raised"
    ELSE CASE pc = "ssh_set_remote_url" -> "ssh_mkstemp_key"
           [] pc = "ssh_mkstemp_key" -> "ssh_write_key"
           [] pc = "ssh_write_key" -> "ssh_chmod_key"
           [] pc = "ssh_chmod_key" -> "ssh_mkstemp_hosts"
           [] pc = "ssh_mkstemp_hosts" -> "ssh_keyscan"
           [] pc = "ssh_keyscan" -> "ssh_config"
           [] pc = "ssh_config" ->
                 IF Truthy(password) THEN "ssh_agent" ELSE "done"
           [] pc = "ssh_agent" -> "ssh_environ"
           [] pc = "ssh_environ" -> "ssh_add"
           [] pc = "ssh_add" -> "ssh_expect_prompt"
           [] pc = "ssh_expect_prompt" -> "ssh_sendline"
           [] pc = "ssh_sendline" -> "ssh_expect_added"
           [] pc = "ssh_expect_added" -> "done"

\* A configure_gpg that does not look at the result of the test signature.
GpgNextIgnoringSign(pc, password, result) ==
    CASE pc = "gpg_mkdtemp" -> "gpg_chmod"
      [] pc = "gpg_chmod" -> "gpg_import"
      [] pc = "gpg_import" ->
            IF result # 1 THEN "abort"
            ELSE IF Truthy(password) THEN "gpg_sign" ELSE "gpg_config"
      [] pc = "gpg_sign" -> "gpg_config"
      [] pc = "gpg_config" -> IF result = 4 THEN "done" ELSE "raised"

\* Repo.configure_gpg (lines 233-256), statement by statement: the
\* statement that follows the one at pc.  The result is the number of secret
\* keys imported (line 241), the status of the test signature (line 250),
\* or the number of settings Git wrote before a Git.config call raised.
GpgNext(pc, password, result) ==
    CASE pc = "gpg_mkdtemp" -> "gpg_chmod"
      [] pc = "gpg_chmod" -> "gpg_import"
      [] pc = "gpg_import" ->
            IF result # 1 THEN "abort"
            ELSE IF Truthy(password) THEN "gpg_sign" ELSE "gpg_config"
      [] pc = "gpg_sign" ->
            IF result # "signature created" THEN "abort" ELSE "gpg_config"
      [] pc = "gpg_config" -> IF result = 4 THEN "done" ELSE "raised"

\* The call under way at the statement pc2.
At(pc2) == [cred EXCEPT !.pc = pc2]

\* The call under way goes on as c2, having made the calls cs and printed
\* msgs; an exception ends the process.
CredGoto(c2, cs, msgs) ==
    /\ cred' = c2
    /\ calls' = calls \o cs
    /\ log' = log \o msgs
    /\ outcome' = CASE c2.pc = "done" -> "returned"
                    [] c2.pc = "raised" -> "raised"
                    [] c2.pc = "abort" -> "abort"
                    [] OTHER -> "running"
    /\ stage' = IF c2.pc \in {"raised", "abort"} THEN "failed" ELSE stage
    /\ UNCHANGED <<lookbackVars, registryVars, repoVars, configVars, b64Vars, versionsVars, STATUS,
                   candidates, valid, validations, queue, runs, configs>>

\* The caller calls configure_ssh(key, password) or configure_gpg(key,
\* password).
StartConfigure(op, key, password) ==
    /\ stage = "configure"
    /\ cred.pc \in {"idle", "done"}
    /\ configs < MaxConfigs
    /\ configs' = configs + 1
    /\ cred' = [op |-> op,
                pc |-> IF op = "ssh" THEN "ssh_set_remote_url" ELSE "gpg_mkdtemp",
                key |-> key, password |-> password,
                git0 |-> gitConfig, secImported |-> 0, keyId |-> "",
                signStatus |-> "", written |-> 0]
    /\ calls' = <<>>
    /\ log' = <<>>
    /\ outcome' = "running"
    /\ UNCHANGED <<lookbackVars, registryVars, repoVars, configVars, b64Vars, versionsVars, STATUS,
                   candidates, valid, validations, callerVars, environ,
                   gitConfig, tempFiles, agent>>

\* Line 200.
SshSetRemoteUrl ==
    /\ cred.pc = "ssh_set_remote_url"
    /\ \E ok \in BOOLEAN :
          CredGoto(At(SshNext(cred.pc, cred.password, ok)),
                   <<Call("set_remote_url", <<SshUrl>>)>>, <<>>)
    /\ UNCHANGED <<environ, gitConfig, tempFiles, agent>>

\* Line 201.
SshMkstempKey ==
    /\ cred.pc = "ssh_mkstemp_key"
    /\ tempFiles' = [tempFiles EXCEPT !["tagbot_key_"] =
                        [exists |-> TRUE, mode |-> MkstempMode, content |-> "",
                         used |-> FALSE]]
    /\ CredGoto(At(SshNext(cred.pc, cred.password, TRUE)),
                <<Call("mkstemp", <<"tagbot_key_">>)>>, <<>>)
    /\ UNCHANGED <<environ, gitConfig, agent>>

\* Lines 202-204.
SshWriteKey ==
    /\ cred.pc = "ssh_write_key"
    /\ LET text == Strip(KeyText(cred.key)) \o "\n" IN
       /\ tempFiles' = [tempFiles EXCEPT !["tagbot_key_"].content = text]
       /\ CredGoto(At(SshNext(cred.pc, cred.password, TRUE)),
                   <<Call("write", <<"tagbot_key_", text>>)>>, <<>>)
    /\ UNCHANGED <<environ, gitConfig, agent>>

\* Line 205.
SshChmodKey ==
    /\ cred.pc = "ssh_chmod_key"
    /\ tempFiles' = [tempFiles EXCEPT !["tagbot_key_"].mode = KeyFileMode]
    /\ CredGoto(At(SshNext(cred.pc, cred.password, TRUE)),
                <<Call("chmod", <<"tagbot_key_", "S_IREAD">>)>>, <<>>)
    /\ UNCHANGED <<environ, gitConfig, agent>>

\* Line 208.
SshMkstempHosts ==
    /\ cred.pc = "ssh_mkstemp_hosts"
    /\ tempFiles' = [tempFiles EXCEPT !["tagbot_hosts_"] =
                        [exists |-> TRUE, mode |-> MkstempMode, content |-> "",
                         used |-> FALSE]]
    /\ CredGoto(At(SshNext(cred.pc, cred.password, TRUE)),
                <<Call("mkstemp", <<"tagbot_hosts_">>)>>, <<>>)
    /\ UNCHANGED <<environ, gitConfig, agent>>

\* Lines 209-215: ssh-keyscan writes the host key of github.com, or fails.
SshKeyscan ==
    /\ cred.pc = "ssh_keyscan"
    /\ \E ok \in BOOLEAN :
          /\ tempFiles' = IF ok
                          THEN [tempFiles EXCEPT !["tagbot_hosts_"].content =
                                   "github.com ssh-rsa"]
                          ELSE tempFiles
          /\ CredGoto(At(SshNext(cred.pc, cred.password, ok)),
                      <<Call("run", <<"ssh-keyscan", "-t", "rsa", "github.com">>)>>,
                      <<>>)
    /\ UNCHANGED <<environ, gitConfig, agent>>

\* Lines 216-218: from here on Git uses the key file.
SshConfig ==
    /\ cred.pc = "ssh_config"
    /\ LET cmd == SshCommand("tagbot_key_", "tagbot_hosts_") IN
       \E ok \in BOOLEAN :
          /\ gitConfig' = IF ok
                          THEN [gitConfig EXCEPT !["core.sshCommand"] = cmd]
                          ELSE gitConfig
          /\ tempFiles' = IF ok
                          THEN [tempFiles EXCEPT !["tagbot_key_"].used = TRUE,
                                                 !["tagbot_hosts_"].used = TRUE]
                          ELSE tempFiles
          /\ CredGoto(At(SshNext(cred.pc, cred.password, ok)),
                      <<Call("config", <<"core.sshCommand", cmd>>)>>, <<>>)
    /\ UNCHANGED <<environ, agent>>

\* Lines 219-224: ssh-agent is started, or fails to start.
SshAgent ==
    /\ cred.pc = "ssh_agent"
    /\ \E ok \in BOOLEAN :
          /\ agent' = IF ok THEN [agent EXCEPT !.started = TRUE] ELSE agent
          /\ CredGoto(At(SshNext(cred.pc, cred.password, ok)),
                      <<Call("run", <<"ssh-agent">>)>>, <<>>)
    /\ UNCHANGED <<environ, gitConfig, tempFiles>>

\* Lines 225-227.
SshEnviron ==
    /\ cred.pc = "ssh_environ"
    /\ environ' = EnvironAfter(environ, AgentAnnounces)
    /\ CredGoto(At(SshNext(cred.pc, cred.password, TRUE)),
                <<Call("environ", <<"SSH_AUTH_SOCK", "SSH_AGENT_PID">>)>>, <<>>)
    /\ UNCHANGED <<gitConfig, tempFiles, agent>>

\* Line 228.
SshAdd ==
    /\ cred.pc = "ssh_add"
    /\ agent' = [agent EXCEPT !.child = "spawned"]
    /\ tempFiles' = [tempFiles EXCEPT !["tagbot_key_"].used = TRUE]
    /\ CredGoto(At(SshNext(cred.pc, cred.password, TRUE)),
                <<Call("spawn", <<"ssh-add tagbot_key_">>)>>, <<>>)
    /\ UNCHANGED <<environ, gitConfig>>

\* Line 229: the prompt is seen, or pexpect raises.
SshExpectPrompt ==
    /\ cred.pc = "ssh_expect_prompt"
    /\ \E ok \in BOOLEAN :
          /\ agent' = IF ok THEN [agent EXCEPT !.child = "prompted"] ELSE agent
          /\ CredGoto(At(SshNext(cred.pc, cred.password, ok)),
                      <<Call("expect", <<"Enter passphrase">>)>>, <<>>)
    /\ UNCHANGED <<environ, gitConfig, tempFiles>>

\* Line 230.
SshSendline ==
    /\ cred.pc = "ssh_sendline"
    /\ agent' = [agent EXCEPT !.child = "sent"]
    /\ CredGoto(At(SshNext(cred.pc, cred.password, TRUE)),
                <<Call("sendline", <<cred.password>>)>>, <<>>)
    /\ UNCHANGED <<environ, gitConfig, tempFiles>>

\* Line 231: the confirmation is seen, or pexpect raises.
SshExpectAdded ==
    /\ cred.pc = "ssh_expect_added"
    /\ \E ok \in BOOLEAN :
          /\ agent' = IF ok THEN [agent EXCEPT !.child = "added"] ELSE agent
          /\ CredGoto(At(SshNext(cred.pc, cred.password, ok)),
                      <<Call("expect", <<"Identity added">>)>>, <<>>)
    /\ UNCHANGED <<environ, gitConfig, tempFiles>>

\* Line 235: the GPG home is made and named in the environment.
GpgMkdtemp ==
    /\ cred.pc = "gpg_mkdtemp"
    /\ tempFiles' = [tempFiles EXCEPT !["tagbot_gpg_"] =
                        [exists |-> TRUE, mode |-> MkdtempMode, content |-> "",
                         used |-> FALSE]]
    /\ environ' = [environ EXCEPT !["GNUPGHOME"] = "tagbot_gpg_"]
    /\ CredGoto(At(GpgNext(cred.pc, cred.password, TRUE)),
                <<Call("mkdtemp", <<"tagbot_gpg_">>),
                  Call("environ", <<"GNUPGHOME">>)>>, <<>>)
    /\ UNCHANGED <<gitConfig, agent>>

\* Line 236.
GpgChmod ==
    /\ cred.pc = "gpg_chmod"
    /\ tempFiles' = [tempFiles EXCEPT !["tagbot_gpg_"].mode = GpgHomeMode]
    /\ CredGoto(At(GpgNext(cred.pc, cred.password, TRUE)),
                <<Call("chmod", <<"tagbot_gpg_", "S_IREAD | S_IWRITE | S_IEXEC">>)>>,
                <<>>)
    /\ UNCHANGED <<environ, gitConfig, agent>>

\* The numbers of secret keys an import can report.
SecImported == 0..2
\* The fingerprints an import of one secret key reports.
Fingerprints == {<<"FPR1">>, <<"FPR1", "FPR2">>}
\* The statuses of a test signature: made, or not.
SignStatuses == {"signature created", "None"}

\* The settings configure_gpg writes, in order (lines 253-256).
GpgSettings(keyId) ==
    <<<<"user.signingKey", keyId>>, <<"user.name", "github-actions[bot]">>,
      <<"user.email", "actions@github.com">>, <<"tag.gpgSign", "true">>>>
\* The settings after the first n of pairs are written.
ConfigAfter(config, pairs, n) ==
    [k \in ConfigKeys |->
        IF \E i \in 1..n : pairs[i][1] = k
        THEN pairs[CHOOSE i \in 1..n : pairs[i][1] = k][2]
        ELSE config[k]]

\* Lines 238-244: the key is imported; the import reports how many secret
\* keys it took in and their fingerprints.
GpgImport ==
    /\ cred.pc = "gpg_import"
    /\ \E sec \in SecImported, fprs \in Fingerprints :
          LET pc2 == GpgNext(cred.pc, cred.password, sec)
              text == KeyText(cred.key)
          IN
          /\ tempFiles' = IF sec > 0
                          THEN [tempFiles EXCEPT !["tagbot_gpg_"].content = text,
                                                 !["tagbot_gpg_"].used = TRUE]
                          ELSE tempFiles
          /\ CredGoto([cred EXCEPT !.pc = pc2, !.secImported = sec,
                                   !.keyId = IF pc2 = "abort" THEN "" ELSE fprs[1]],
                      <<Call("import_keys", <<text>>)>>,
                      IF pc2 = "abort"
                      THEN <<Message("warning", "import stderr")>>
                      ELSE <<>>)
    /\ UNCHANGED <<environ, gitConfig, agent>>

\* Lines 246-252: with a passphrase, a test signature is made.
GpgSign ==
    /\ cred.pc = "gpg_sign"
    /\ \E status \in SignStatuses :
          LET pc2 == GpgNext(cred.pc, cred.password, status) IN
          CredGoto([cred EXCEPT !.pc = pc2, !.signStatus = status],
                   <<Call("sign", <<"test", cred.password>>)>>,
                   IF pc2 = "abort"
                   THEN <<Message("warning", "sign stderr")>>
                   ELSE <<>>)
    /\ UNCHANGED <<environ, gitConfig, tempFiles, agent>>

\* Lines 253-256: the four settings are written, unless a Git.config call
\* raises after n of them.
GpgConfig ==
    /\ cred.pc = "gpg_config"
    /\ \E n \in 0..4 :
          LET pairs == GpgSettings(cred.keyId)
              made == IF n = 4 THEN 4 ELSE n + 1
          IN
          /\ gitConfig' = ConfigAfter(gitConfig, pairs, n)
          /\ CredGoto([cred EXCEPT !.pc = GpgNext(cred.pc, cred.password, n),
                                   !.written = n],
                      [i \in 1..made |-> Call("config", pairs[i])], <<>>)
    /\ UNCHANGED <<environ, tempFiles, agent>>

\* The caller has configured what it wanted and goes on to the versions.
FinishConfigure ==
    /\ stage = "configure"
    /\ cred.pc \in {"idle", "done"}
    /\ stage' = "versions"
    /\ outcome' = "none"
    /\ calls' = <<>>
    /\ log' = <<>>
    /\ UNCHANGED <<lookbackVars, registryVars, repoVars, configVars, b64Vars, versionsVars, STATUS,
                   candidates, valid, validations, queue, runs, credVars>>

\* A process that configures its credentials and then releases the one new
\* version of the registry.
InitCredentials ==
    /\ registry = GeneralRegistry
    /\ repoState = NewRepo
    /\ workflows = [exists |-> TRUE, files |-> <<>>]
    /\ InitProcess
    /\ current = <<<<"1.2.3", "abc">>>>
    /\ old = <<>>
    /\ treeCommit = [t \in Trees |-> IF t = "abc" THEN "sha1" ELSE "sha2"]
    /\ tags = [v \in Versions |-> NoCommit]
    /\ releases = {}
    /\ branches = [b \in BranchNames |-> "Absent"]
    /\ pulls = {}
    /\ defaultHead = "sha1"
    /\ ssh \in BOOLEAN
    /\ gpg \in BOOLEAN
    /\ queue = <<>>
    /\ stage = "configure"
    /\ runs = 1

NextCredentials ==
    \/ \E op \in {"ssh", "gpg"}, key \in KeyInputs, password \in Passwords :
          StartConfigure(op, key, password)
    \/ SshSetRemoteUrl
    \/ SshMkstempKey
    \/ SshWriteKey
    \/ SshChmodKey
    \/ SshMkstempHosts
    \/ SshKeyscan
    \/ SshConfig
    \/ SshAgent
    \/ SshEnviron
    \/ SshAdd
    \/ SshExpectPrompt
    \/ SshSendline
    \/ SshExpectAdded
    \/ GpgMkdtemp
    \/ GpgChmod
    \/ GpgImport
    \/ GpgSign
    \/ GpgConfig
    \/ FinishConfigure
    \/ RunNewVersions
    \/ RunHandleReleaseBranch
    \/ RunCreateRelease

SpecCredentials == InitCredentials /\ [][NextCredentials]_vars

\* ------------------------------------------------------- claims: lookback
\* Three days and one hour, in seconds.
Floor == (3 * 24 + 1) * 3600

\* A workflow file in which some step references TagBot and whose schedule
\* has a cron interval.
Matches(f) ==
    /\ f.kind = "doc"
    /\ \E i \in 1..Len(f.steps) : f.steps[i] = "tagbot"
    /\ f.sched # "none"

\* C4: every value a read of the lookback returns is at least 3 days 1 hour,
\* whatever the workflows directory holds.
C4_LookbackAtLeastFloor ==
    (accesses > 0 /\ ~lastLookback.raised) =>
        /\ lastLookback.value # None
        /\ lastLookback.value[1] >= Floor

\* C4 witness: a read that matched an hourly schedule (4 hours once tripled
\* and padded) and returned the floor instead.
C4_Witness ==
    /\ accesses > 0
    /\ ~lastLookback.raised
    /\ lookbackCache = Some(Floor)
    /\ \E i \in 1..Len(workflows.files) :
          Matches(workflows.files[i]) /\ workflows.files[i].sched = "hourly"

\* C5, as claimed: a read of the lookback never raises, and when no file
\* has a TagBot step with a usable schedule, or the directory is missing, it
\* returns exactly the default.  The code raises when the directory is
\* missing (os.listdir at line 85 is outside the try block).
C5_NeverRaisesDefaultOnFallback ==
    accesses > 0 =>
        /\ ~lastLookback.raised
        /\ (~workflows.exists
              \/ \A i \in 1..Len(workflows.files) : ~Matches(workflows.files[i]))
           => lastLookback.value = Some(Floor)

\* C6, as claimed: when some file has a TagBot step and a schedule of
\* interval I, the lookback is max(3*I + 1 hour, 3 days 1 hour) for the first
\* such file, whatever precedes the matching step.  The code gives up a file
\* at the first step without a uses entry (KeyError at line 94).
C6_FirstMatchDecides ==
    (accesses > 0 /\ workflows.exists
        /\ \E i \in 1..Len(workflows.files) : Matches(workflows.files[i])) =>
        LET first == CHOOSE i \in 1..Len(workflows.files) :
                        /\ Matches(workflows.files[i])
                        /\ \A j \in 1..(i - 1) : ~Matches(workflows.files[j])
            I == CronSeconds(workflows.files[first].sched)
        IN lastLookback = [raised |-> FALSE,
                           value |-> Some(Max(3 * I + 3600, Floor))]

\* C7, as claimed: once the lookback has been read, a later read in the same
\* process returns the same value and opens no workflow file.  The code
\* leaves the cache slot empty on the fallback path (line 107) and scans the
\* directory again.
C7_ComputedOnceThenCached ==
    [][(accesses > 0 /\ ~lastLookback.raised) =>
          (lastLookback' = lastLookback /\ opens' = opens)]_vars

\* ---------------------------------------- claims: reconciling, validating
\* The three checks of a candidate, read off the repository state.
Resolves(tree) == treeCommit[tree] \in Commits
TagElsewhere(key, tree) ==
    \E c \in Commits : tags["v" \o key] = c /\ c # treeCommit[tree]
Released(key) == ("v" \o key) \in releases
Clean(kv) == Resolves(kv[2]) /\ ~TagElsewhere(kv[1], kv[2]) /\ ~Released(kv[1])

\* C1: every version in the result of new_versions comes from an entry of
\* the current snapshot whose tree resolved to the commit it is paired with,
\* with no tag of that name at another commit and no release of that name.
C1_OnlyCleanVersionsReturned ==
    outcome = "returned" =>
        \A i \in 1..Len(valid) :
            \E j \in 1..Len(current) :
                /\ valid[i][1] = "v" \o current[j][1]
                /\ valid[i][2] = treeCommit[current[j][2]]
                /\ Clean(current[j])

\* C1 witness: new_versions returned a version while dropping another
\* candidate.
C1_Witness ==
    /\ outcome = "returned"
    /\ valid # <<>>
    /\ Len(valid) < Len(candidates)
    /\ \E v \in Versions : tags[v] # NoCommit
    /\ releases # {}

\* C3: the candidates new_versions hands to the validator are exactly the
\* entries of the current snapshot whose key is no key of the older snapshot,
\* with the current snapshot's tree SHA, whatever trees the older one holds.
C3_CandidatesAreKeyDifference ==
    outcome = "returned" =>
        /\ \A j \in 1..Len(current) :
              (current[j][1] \notin DictKeys(old))
                  <=> (\E i \in 1..Len(candidates) : candidates[i] = current[j])
        /\ \A i \in 1..Len(candidates) :
              \E j \in 1..Len(current) : candidates[i] = current[j]
        /\ Len(candidates) = Cardinality(DictKeys(current) \ DictKeys(old))

\* C3 witness: a key is in both snapshots with different trees, another key
\* is new, and only the new one is a candidate.
C3_Witness ==
    /\ outcome = "returned"
    /\ Len(candidates) = 1
    /\ \E i \in 1..Len(current), j \in 1..Len(old) :
          current[i][1] = old[j][1] /\ current[i][2] # old[j][2]

\* The one message a dropped candidate gets: the first failing check decides.
DropMessage(kv) ==
    LET v == "v" \o kv[1] IN
    IF ~Resolves(kv[2]) THEN
        [level |-> "warning",
         text |-> "No matching commit was found for version " \o v
                      \o " (" \o kv[2] \o ")"]
    ELSE IF TagElsewhere(kv[1], kv[2]) THEN
        [level |-> "error",
         text |-> "Existing tag " \o v \o " points at the wrong commit (expected "
                      \o treeCommit[kv[2]] \o ")"]
    ELSE
        [level |-> "info", text |-> "Release " \o v \o " already exists"]

\* C8: the validator returns exactly "v"+key -> commit for the clean
\* candidates; every other candidate gets exactly one message, of the
\* severity of its first failing check, and the checks after that one are
\* not made for it.
C8_ValidatorResultAndMessages ==
    validations > 0 =>
        LET idx == 1..Len(candidates)
            dropped == {i \in idx : ~Clean(candidates[i])}
        IN
        /\ {valid[i] : i \in 1..Len(valid)} =
               {<<"v" \o candidates[i][1], treeCommit[candidates[i][2]]>> :
                    i \in idx \ dropped}
        /\ Len(valid) = Cardinality(idx \ dropped)
        /\ Len(log) = Cardinality(dropped)
        /\ \A i \in dropped :
              Cardinality({n \in 1..Len(log) : log[n] = DropMessage(candidates[i])}) = 1
        /\ \A i \in dropped, n \in 1..Len(calls) :
              LET v == "v" \o candidates[i][1] IN
              /\ ~Resolves(candidates[i][2]) =>
                    ~(calls[n].op \in {"invalid_tag_exists", "get_release"}
                        /\ calls[n].args[1] = v)
              /\ TagElsewhere(candidates[i][1], candidates[i][2]) =>
                    ~(calls[n].op = "get_release" /\ calls[n].args[1] = v)

\* C8 witness: two candidates, one clean and one whose tag is at another
\* commit and whose release also exists (only the error is reported).
C8_Witness ==
    /\ validations > 0
    /\ Len(candidates) = 2
    /\ Len(valid) = 1
    /\ \E i \in 1..2 :
          /\ TagElsewhere(candidates[i][1], candidates[i][2])
          /\ Released(candidates[i][1])
          /\ Resolves(candidates[i][2])
    /\ Len(log) = 1 /\ log[1].level = "error"

C10_StatusRaisedOnlyByWrongTag ==
    validations > 0 =>
        LET idx == 1..Len(candidates)
            wrong == {i \in idx : Resolves(candidates[i][2])
                                    /\ TagElsewhere(candidates[i][1], candidates[i][2])}
        IN
        /\ STATUS # 0 <=> wrong # {}
        /\ \A i \in idx :
              /\ \E n \in 1..Len(calls) :
                    calls[n] = [op |-> "commit_sha_of_tree",
                                args |-> <<candidates[i][2]>>]
              /\ ~Clean(candidates[i]) =>
                    ~\E n \in 1..Len(valid) : valid[n][1] = "v" \o candidates[i][1]
        /\ Cardinality({n \in 1..Len(calls) : calls[n].op = "commit_sha_of_tree"})
              = Len(candidates)

\* C10 witness: the first candidate's tag is at another commit, the second
\* candidate survives, and the status is raised.
C10_Witness ==
    /\ validations > 0
    /\ Len(candidates) = 2
    /\ Resolves(candidates[1][2])
    /\ TagElsewhere(candidates[1][1], candidates[1][2])
    /\ Len(valid) = 1
    /\ valid[1][1] = "v" \o candidates[2][1]
    /\ STATUS = 1

\* ------------------------------------------------------ claims: re-running
\* C2, as claimed: in every process, also one that follows a process that
\* failed part-way, create_release calls create_tag only for a tag that does
\* not exist and create_git_release only for a release that does not exist.
\* The code calls create_tag whenever SSH or GPG signing is on (line 285),
\* also for a tag an earlier process left behind.
C2_NothingRecreatedOnRerun ==
    [][stage = "release" =>
          \A n \in 1..Len(calls') :
              /\ calls'[n].op = "create_tag" => tags[calls'[n].args[1]] = NoCommit
              /\ calls'[n].op = "create_git_release" =>
                    calls'[n].args[1] \notin releases]_vars

\* ------------------------------------------------- claims: release branch
\* The names of the accessor calls in cs, in order.
OpsOf(cs) == [n \in 1..Len(cs) |-> cs[n].op]
\* The number of calls of op in cs.
CountOp(cs, op) == Cardinality({n \in 1..Len(cs) : cs[n].op = op})

\* C11: handle_release_branch acts on the state the release branch is in
\* when it is called.  Absent: the fast-forward check, the merge and the pull
\* request are not called.  Fast-forwardable: no pull request, and a call
\* that returns has merged and deleted the branch exactly once.  Diverged: no
\* merge, and a call that returns has asked for exactly one pull request,
\* from the release branch into the default branch.
C11_BranchStateDecidesCalls ==
    [][stage = "branch" =>
          LET version == Head(queue)[1]
              branch == ReleaseBranch(version)
              merges == CountOp(calls', "merge_and_delete_branch")
              prs == CountOp(calls', "create_pull")
              returned == outcome' = "returned"
          IN
          /\ branches[branch] = "Absent" =>
                /\ CountOp(calls', "can_fast_forward") = 0
                /\ merges = 0
                /\ prs = 0
          /\ branches[branch] = "FastForwardable" =>
                /\ prs = 0
                /\ merges <= 1
                /\ returned =>
                      /\ merges = 1
                      /\ calls'[Len(calls')] =
                            Call("merge_and_delete_branch", <<branch>>)
          /\ branches[branch] = "Diverged" =>
                /\ merges = 0
                /\ prs <= 1
                /\ returned =>
                      /\ prs = 1
                      /\ calls'[Len(calls')].op = "create_pull"
                      /\ calls'[Len(calls')].args[3] = branch
                      /\ calls'[Len(calls')].args[4] = DefaultBranch
                      /\ \E p \in pulls' : p.head = branch /\ p.base = DefaultBranch
                      /\ \A p \in pulls' \ pulls :
                            p.head = branch /\ p.base = DefaultBranch]_vars

\* C11 witness: handle_release_branch has returned after asking for a pull
\* request for a branch that is still diverged.
C11_Witness ==
    /\ stage = "release"
    /\ outcome = "returned"
    /\ branches[ReleaseBranch(Head(queue)[1])] = "Diverged"
    /\ OpsOf(calls) = <<"fetch_branch", "can_fast_forward", "create_pull">>
    /\ calls[3].args[3] = ReleaseBranch(Head(queue)[1])

\* ---------------------------------------------------- claims: the release
\* C13: a create_release(version, sha) that returns has asked for exactly
\* one release; its tag and its title are version, and its target is the
\* name of the default branch when sha is the commit at the head of the
\* default branch as the call finds it, and sha otherwise.  A create_release
\* that fails has asked for at most one.
C13_OneReleaseWithTagTitleTarget ==
    [][stage = "release" =>
          LET version == Head(queue)[1]
              sha == Head(queue)[2]
              last == calls'[Len(calls')]
          IN
          /\ CountOp(calls', "create_git_release") <= 1
          /\ outcome' = "returned" =>
                /\ CountOp(calls', "create_git_release") = 1
                /\ last.op = "create_git_release"
                /\ last.args[1] = version
                /\ last.args[2] = version
                /\ defaultHead = sha => last.args[4] = DefaultBranch
                /\ defaultHead # sha => last.args[4] = sha
                /\ releases' = releases \cup {version}]_vars

\* C13 witness: a release has been made of the commit at the head of the
\* default branch, and it targets the default branch by name.
C13_Witness ==
    /\ stage \in {"branch", "done"}
    /\ outcome = "returned"
    /\ calls # <<>>
    /\ calls[Len(calls)].op = "create_git_release"
    /\ calls[Len(calls)].args[1] \in releases
    /\ calls[Len(calls)].args[2] = calls[Len(calls)].args[1]
    /\ calls[Len(calls)].args[4] = DefaultBranch

\* The positions of the calls of op in cs.
Positions(cs, op) == {n \in 1..Len(cs) : cs[n].op = op}

\* C14: create_release calls Git.create_tag only when SSH or GPG is active,
\* and then once, for version at sha, before the release is requested, and
\* annotated exactly when GPG is active; a release requested with SSH or GPG
\* active has had its tag created first.  With neither active no create_tag
\* call is made and the release request is the only call that writes.
C14_ManualTagBeforeRelease ==
    [][stage = "release" =>
          LET version == Head(queue)[1]
              sha == Head(queue)[2]
              tagCalls == Positions(calls', "create_tag")
              relCalls == Positions(calls', "create_git_release")
          IN
          /\ tagCalls # {} => ssh \/ gpg
          /\ Cardinality(tagCalls) <= 1
          /\ \A t \in tagCalls :
                /\ calls'[t].args = <<version, sha, BoolStr(gpg)>>
                /\ \A r \in relCalls : t < r
          /\ (ssh \/ gpg) /\ relCalls # {} => tagCalls # {}
          /\ ~(ssh \/ gpg) /\ outcome' = "returned" =>
                OpsOf(calls') = <<"commit_sha_of_default", "changelog.get",
                                  "create_git_release">>]_vars

\* C14 witness: with SSH alone active, the tag was created without
\* annotation and the release requested after it.
C14_Witness ==
    /\ ssh /\ ~gpg
    /\ outcome = "returned"
    /\ OpsOf(calls) = <<"commit_sha_of_default", "changelog.get",
                        "create_tag", "create_git_release">>
    /\ calls[3].args[3] = "False"
    /\ calls[3].args[1] \in releases

\* -------------------------------------------------- claims: what failures do
\* The accessor calls Repo makes while releasing a version.
ReleasingOps ==
    {"fetch_branch", "can_fast_forward", "merge_and_delete_branch",
     "create_pull", "commit_sha_of_default", "changelog.get", "create_tag",
     "create_git_release"}
\* The call mentions version or its release branch.
Mentions(call, version) ==
    \E a \in 1..Len(call.args) :
        call.args[a] \in {version, ReleaseBranch(version)}

\* C15: a failing accessor call ends handle_release_branch or create_release
\* there and ends the process: no further call is made, and nothing done so
\* far is undone.  When create_tag fails the release is not requested; when
\* the release request fails the tag just created, the merge and the pull
\* request stay as they are.  No call is made for a version whose release
\* exists, and a failed process is followed only by the start of another.
C15_FailureStopsWithoutUndo ==
    [][/\ stage \in {"branch", "release"} =>
            LET version == Head(queue)[1]
                sha == Head(queue)[2]
                n == Len(calls')
            IN
            /\ \A c \in 1..n : calls'[c].op \in ReleasingOps
            /\ \A v \in releases, c \in 1..n : ~Mentions(calls'[c], v)
            /\ outcome' = "raised" =>
                  /\ stage' = "failed"
                  /\ queue' = queue
                  /\ releases' = releases
                  /\ \A v \in Versions : tags[v] # NoCommit => tags'[v] = tags[v]
                  /\ stage = "release" =>
                        /\ branches' = branches
                        /\ pulls' = pulls
                        /\ defaultHead' = defaultHead
                        /\ calls'[n].op = "create_tag" =>
                              CountOp(calls', "create_git_release") = 0
                        /\ calls'[n].op = "create_git_release"
                              /\ CountOp(calls', "create_tag") = 1 =>
                              tags'[version] = sha
       /\ stage = "failed" => stage' = "versions" /\ runs' = runs + 1]_vars

\* C15 witness: the release request failed after the tag was created; the
\* tag is in place, the release branch is gone, the default branch is at the
\* commit a merge put it at, and the process has ended.
C15_Witness ==
    /\ stage = "failed"
    /\ outcome = "raised"
    /\ OpsOf(calls) = <<"commit_sha_of_default", "changelog.get",
                        "create_tag", "create_git_release">>
    /\ tags[Head(queue)[1]] = calls[3].args[2]
    /\ Head(queue)[1] \notin releases
    /\ branches[ReleaseBranch(Head(queue)[1])] = "Absent"
    /\ defaultHead = "sha2"

C12_EveryVersionReachesReleased ==
    \A v \in Versions :
        /\ \A b \in BranchStates :
              (stage = "branch" /\ Head(queue)[1] = v
                 /\ branches[ReleaseBranch(v)] = b)
              ~> (v \in releases)
        /\ (stage = "branch" /\ Head(queue)[1] = v
              /\ branches[ReleaseBranch(v)] = "Diverged")
           ~> /\ v \in releases
              /\ branches[ReleaseBranch(v)] = "Diverged"
              /\ CreateReleaseBranchPr(v, ReleaseBranch(v)) \in pulls

\* C12 witness: a version is released while its release branch is diverged
\* and the pull request for it is open.
C12_Witness ==
    /\ stage \in {"branch", "done"}
    /\ outcome = "returned"
    /\ \E v \in releases :
          /\ branches[ReleaseBranch(v)] = "Diverged"
          /\ CreateReleaseBranchPr(v, ReleaseBranch(v)) \in pulls
          /\ calls[Len(calls)] =
                Call("create_git_release",
                     <<v, v, calls[Len(calls)].args[3], calls[Len(calls)].args[4]>>)

\* ------------------------------------------------- claims: configuring GPG
\* What configure_gpg looks at: the import took in exactly one secret key
\* and, with a passphrase, the test signature was made.
GpgKeyUsable(c) ==
    /\ c.secImported = 1
    /\ Truthy(c.password) => c.signStatus = "signature created"

\* C16: a configure_gpg call that has ended has returned only if the import
\* took in exactly one secret key and, with a passphrase, the test signature
\* was made, and then the four Git settings are written, the signing key
\* being the first fingerprint the import reported.  It has ended with Abort
\* exactly when that condition fails, and then no Git.config call was made
\* and the settings are what they were before the call.  When the condition
\* holds the call returns unless a Git.config call itself raises.
C16_GpgSucceedsIffKeyUsable ==
    cred.op = "gpg" /\ cred.pc \in CredEnds =>
        /\ cred.pc = "done" =>
              /\ GpgKeyUsable(cred)
              /\ cred.keyId \in {"FPR1"}
              /\ gitConfig["user.signingKey"] = cred.keyId
              /\ gitConfig["user.name"] = "github-actions[bot]"
              /\ gitConfig["user.email"] = "actions@github.com"
              /\ gitConfig["tag.gpgSign"] = "true"
              /\ stage = "configure" => outcome = "returned"
        /\ cred.pc = "abort" <=> ~GpgKeyUsable(cred)
        /\ cred.pc = "abort" =>
              /\ outcome = "abort"
              /\ stage = "failed"
              /\ gitConfig = cred.git0
              /\ CountOp(calls, "config") = 0
        /\ cred.pc = "raised" =>
              /\ outcome = "raised"
              /\ calls[Len(calls)].op = "config"

\* C16 witness: configure_gpg has returned after a test signature with the
\* passphrase, and the four settings are written.
C16_Witness ==
    /\ cred.op = "gpg"
    /\ cred.pc = "done"
    /\ outcome = "returned"
    /\ Truthy(cred.password)
    /\ cred.signStatus = "signature created"
    /\ gitConfig["user.signingKey"] = "FPR1"
    /\ gitConfig["tag.gpgSign"] = "true"
    /\ CountOp(calls, "config") = 4

\* ------------------------------------------- claims: who can read the keys
OwnerOnly(mode) == mode \subseteq (S_IREAD \cup S_IWRITE \cup S_IEXEC)

\* C17: in every state the key file and the GPG home, once they exist, are
\* accessible to their owner only, also while they are still empty; the key
\* file that holds its content is read-only, except in the one state between
\* the write and the chmod that follows it, and it is read-only whenever
\* something uses it.
C17_CredentialFilesOwnerOnly ==
    LET k == tempFiles["tagbot_key_"]
        g == tempFiles["tagbot_gpg_"]
    IN
    /\ k.exists => OwnerOnly(k.mode)
    /\ g.exists => OwnerOnly(g.mode)
    /\ k.content # "" =>
          /\ k.exists
          /\ k.mode # S_IREAD => cred.op = "ssh" /\ cred.pc = "ssh_chmod_key"
    /\ g.content # "" => g.exists
    /\ k.used => k.content # "" /\ k.mode = S_IREAD
    /\ g.used => g.exists

\* C17 witness: Git uses the read-only key file, and the GPG home holds the
\* imported key.
C17_Witness ==
    /\ tempFiles["tagbot_key_"].used
    /\ tempFiles["tagbot_key_"].mode = S_IREAD
    /\ tempFiles["tagbot_key_"].content = "sshkey\n"
    /\ tempFiles["tagbot_gpg_"].exists
    /\ tempFiles["tagbot_gpg_"].content = "sshkey"
    /\ OwnerOnly(tempFiles["tagbot_gpg_"].mode)

\* ----------------------------------------- claims: the process environment
\* The variables whose value differs between two environments.
Written(env1, env2) == {n \in EnvNames : env1[n] # env2[n]}

\* C18, as claimed: only configure_ssh with a passphrase writes the process
\* environment.  configure_gpg writes GNUPGHOME (line 235).
C18_OnlyAgentBootstrapWritesEnviron ==
    [][environ' # environ =>
          cred.op = "ssh" /\ Truthy(cred.password)]_vars

\* C18, amended: the process environment is written only by configure_ssh
\* with a passphrase, which sets the variables ssh-agent announces, and by
\* configure_gpg, which sets GNUPGHOME; configure_ssh without a passphrase,
\* new_versions, handle_release_branch and create_release leave it as it is.
C18_EnvironWrittenByAgentAndGpgHome ==
    [][environ' # environ =>
          \/ /\ cred.op = "ssh"
             /\ Truthy(cred.password)
             /\ agent.started
             /\ Written(environ, environ') \subseteq DictKeys(AgentAnnounces)
          \/ /\ cred.op = "gpg"
             /\ Written(environ, environ') = {"GNUPGHOME"}]_vars

\* C18 witness: both configure calls have written their variables, and the
\* release made afterwards has left them as they were.
C18_Witness ==
    /\ stage = "done"
    /\ releases # {}
    /\ environ["GNUPGHOME"] = "tagbot_gpg_"
    /\ environ["SSH_AUTH_SOCK"] = "/tmp/ssh-agent.sock"
    /\ environ["SSH_AGENT_PID"] = "123"

\* ---------------------------------------------- claims: the agent bootstrap
\* What configure_ssh does with a passphrase, in order (lines 222-231).
AgentBootstrap(password) ==
    <<Call("run", <<"ssh-agent">>),
      Call("environ", <<"SSH_AUTH_SOCK", "SSH_AGENT_PID">>),
      Call("spawn", <<"ssh-add tagbot_key_">>),
      Call("expect", <<"Enter passphrase">>),
      Call("sendline", <<password>>),
      Call("expect", <<"Identity added">>)>>
IsAgentCall(c) ==
    \/ c.op \in {"environ", "spawn", "expect", "sendline"}
    \/ c = Call("run", <<"ssh-agent">>)
IsPrefix(a, b) ==
    /\ Len(a) <= Len(b)
    /\ \A i \in 1..Len(a) : a[i] = b[i]

\* C19: at every step of configure_ssh the agent is started, its variables
\* are put in the environment, ssh-add is started, the prompt is awaited,
\* the passphrase is sent and the confirmation is awaited in this order; a
\* call with a passphrase that returns has done all six; a prompt or a
\* confirmation that is not seen ends the call with an exception and the
\* process with it; without a passphrase none of the six is done.
C19_AgentBootstrapInOrder ==
    [][cred' # cred /\ cred'.op = "ssh" =>
          LET done == SelectSeq(calls', IsAgentCall) IN
          /\ IsPrefix(done, AgentBootstrap(cred'.password))
          /\ Truthy(cred'.password) /\ outcome' = "returned" =>
                /\ done = AgentBootstrap(cred'.password)
                /\ agent'.child = "added"
          /\ ~Truthy(cred'.password) => done = <<>>
          /\ cred.pc \in {"ssh_expect_prompt", "ssh_expect_added"}
                /\ agent' = agent =>
                /\ outcome' = "raised"
                /\ stage' = "failed"]_vars

\* C19 witness: configure_ssh with a passphrase has returned with the
\* identity added and the agent's variables in the environment.
C19_Witness ==
    /\ cred.op = "ssh"
    /\ outcome = "returned"
    /\ Truthy(cred.password)
    /\ agent.started
    /\ agent.child = "added"
    /\ environ["SSH_AUTH_SOCK"] = "/tmp/ssh-agent.sock"
    /\ calls[Len(calls)] = Call("expect", <<"Identity added">>)

\* ------------------------------------------------------- claims: Base64
\* str.encode(): the UTF-8 bytes of a text.
RECURSIVE Utf8Encode(_)
Utf8Encode(text) ==
    IF text = <<>> THEN <<>>
    ELSE
        LET cp == text[1]
            head == IF cp < 128 THEN <<cp>>
                    ELSE IF cp < 2048
                    THEN <<192 + cp \div 64, 128 + (cp % 64)>>
                    ELSE IF cp < 65536
                    THEN <<224 + cp \div 4096, 128 + ((cp \div 64) % 64),
                           128 + (cp % 64)>>
                    ELSE <<240 + cp \div 262144, 128 + ((cp \div 4096) % 64),
                           128 + ((cp \div 64) % 64), 128 + (cp % 64)>>
        IN head \o Utf8Encode(Tail(text))
\* base64.b64encode: four characters for every three bytes, padded.
B64Encode(b) ==
    LET n == Len(b)
        byte(i) == IF i <= n THEN b[i] ELSE 0
        sextets == (8 * n + 5) \div 6
        data == [j \in 1..sextets |->
                    LET bit == 6 * (j - 1)
                        i == bit \div 8 + 1
                        off == bit % 8
                    IN
                    B64Char(((byte(i) * 256 + byte(i + 1))
                                \div (2^(10 - off))) % 64)]
    IN data \o [k \in 1..((3 - (n % 3)) % 3) |-> Pad]
\* The texts encoded: f, ff, fff and the empty text.
Texts == SeqsUpTo({102}, 3)
\* The shape of Base64 text: groups of four characters of the alphabet, the
\* last group ending in at most two padding characters.
IsBase64(s) ==
    /\ Len(s) % 4 = 0
    /\ DataThenPads(s)
    /\ Len(s) - DataLen(s) <= 2

\* C23, as claimed: _maybe_b64 never raises; given the Base64 encoding of a
\* text it returns the text; given a string that is not Base64 it returns
\* the string.  It raises UnicodeDecodeError for Base64 of bytes that are
\* not UTF-8 and ValueError for a string with a character outside ASCII.
C23_MaybeB64DecodesOrReturnsNeverRaises ==
    b64.called =>
        /\ b64.raised = "none"
        /\ \A y \in Texts :
              b64.input = B64Encode(Utf8Encode(y)) => b64.value = y
        /\ ~IsBase64(b64.input) => b64.value = b64.input

\* ------------------------------------------- claims: reading the registry
\* The get_contents calls of the last operation that ask for a versions file.
VersionsFileCalls ==
    {i \in 1..Len(calls) :
        calls[i].op = "get_contents" /\ calls[i].args[1] # "Registry.toml"}
\* The package has a project file whose uuid is not in the package index.
Unregistered ==
    /\ repoState.file # None
    /\ \A i \in 1..Len(registry.packages) :
          registry.packages[i][1] # repoState.file[1][1][2]
\* The result of the last _versions call is what the commit holds at path:
\* the snapshot of its file, or the empty snapshot when it has no such file.
SnapshotAt(commit, path) ==
    IF \E i \in 1..Len(commit.files) : commit.files[i][1] = path
    THEN \A i \in 1..Len(commit.files) :
            commit.files[i][1] = path
                => LET toml == commit.files[i][2] IN
                   /\ Len(repoState.versions) = Len(toml)
                   /\ \A j \in 1..Len(toml) :
                         /\ repoState.versions[j][1] = toml[j][1]
                         /\ repoState.versions[j][2] = toml[j][2]["git-tree-sha1"]
    ELSE repoState.versions = <<>>
\* The registry commits made at or before now - min_age.
OldEnough ==
    {i \in 1..Len(registry.commits) :
        registry.commits[i].date + repoState.min_age[1] <= Now}

\* C21, as claimed: when the package's uuid is not in the registry's package
\* index, the registry path is None, _versions fetches no versions file, and
\* what it gives is not an empty snapshot.  The code formats None into the
\* path, asks for "None/Versions.toml" and returns the empty snapshot.
C21_UnregisteredFetchesNothingAndIsNotEmpty ==
    (/\ repoState.called
     /\ Unregistered
     /\ \E i \in 1..Len(calls) :
           calls[i] = Call("get_contents", <<"Registry.toml">>)) =>
        /\ repoState.registry_path = None
        /\ VersionsFileCalls = {}
        /\ ~(outcome = "returned" /\ repoState.versions = <<>>)

\* C22: _versions with a minimum age that finds no registry commit at or
\* before now - min_age returns the empty snapshot and asks for no versions
\* file; otherwise it asks once for the versions file at the most recent
\* such commit and returns what that commit holds; without a minimum age it
\* asks once, without a ref, and returns what the head holds; and whenever
\* it asks, an absent file gives the empty snapshot and no exception.
C22_MinAgeReadsMostRecentCommitBefore ==
    repoState.called =>
        IF MinAgeGiven(repoState.min_age) /\ OldEnough = {} THEN
            /\ outcome = "returned"
            /\ repoState.versions = <<>>
            /\ VersionsFileCalls = {}
        ELSE outcome # "abort" =>
            /\ outcome = "returned"
            /\ Cardinality(VersionsFileCalls) = 1
            /\ \A k \in VersionsFileCalls :
                  IF MinAgeGiven(repoState.min_age) THEN
                      \E i \in OldEnough :
                          /\ \A j \in OldEnough :
                                registry.commits[j].date <= registry.commits[i].date
                          /\ calls[k].args =
                                <<calls[k].args[1],
                                  "ref=" \o registry.commits[i].sha>>
                          /\ SnapshotAt(registry.commits[i], calls[k].args[1])
                  ELSE /\ Len(calls[k].args) = 1
                       /\ SnapshotAt(registry.commits[1], calls[k].args[1])

\* C22 witness: a minimum age that skips the registry's head commit; the
\* older commit's versions file was read and holds a version.
C22_Witness ==
    /\ repoState.called
    /\ MinAgeGiven(repoState.min_age)
    /\ Len(registry.commits) = 2
    /\ OldEnough = {2}
    /\ repoState.versions # <<>>
    /\ registry.commits[1].files # registry.commits[2].files

====
